---------------------------- MODULE Spec2Model ----------------------------
(***************************************************************************)
(* A model of pyscroll's buffered tile renderer (pyscroll/orthographic.py), *)
(* its data adapter and animation scheduler (pyscroll/data.py,              *)
(* pyscroll/animation.py) and its quadtree (pyscroll/quadtree.py).          *)
(*                                                                         *)
(* Surfaces are modelled at tile granularity: every buffer operation of    *)
(* the renderer (scroll, fill, blit) is aligned to whole tiles.  A cell of  *)
(* a surface holds the sequence of images blended into it since the last   *)
(* opaque write; a fill with the clear colour empties it, an opaque image  *)
(* replaces it and an image with per-pixel alpha is blended on top of it.  *)
(***************************************************************************)
EXTENDS Integers, Sequences, FiniteSets, TLC

(***************************************************************************)
(* Bounds of the model                                                     *)
(***************************************************************************)
MaxTime == 1
MaxCoord == 9
MaxQDepth == 3
MaxSteps == 3

\* how many maps an aggregator is given at most
MaxMaps == 3

(***************************************************************************)
(* Generic helpers                                                         *)
(***************************************************************************)
Max(a, b) == IF a >= b THEN a ELSE b

Min(a, b) == IF a <= b THEN a ELSE b

Abs(a) == IF a >= 0 THEN a ELSE -a

\* a buffer sized by rounding the view down to whole tiles
FloorDiv(a, b) == a \div b

\* math.ceil(a / b) for a >= 0, b > 0
CeilDiv(a, b) == (a + b - 1) \div b

\* the elements lo, lo+1, .., hi as a sequence (empty when hi < lo)
RangeSeq(lo, hi) == [i \in 1..Max(hi - lo + 1, 0) |-> lo + i - 1]

RECURSIVE Concat(_)
\* chain of a sequence of sequences
Concat(ss) == IF ss = <<>> THEN <<>> ELSE Head(ss) \o Concat(Tail(ss))

\* python's round() on a number given in halves (n2 / 2): ties go to even
Round(n2) ==
    IF n2 % 2 = 0 THEN n2 \div 2
    ELSE LET k == (n2 - 1) \div 2 IN IF k % 2 = 0 THEN k ELSE k + 1

(***************************************************************************)
(* pygame.Rect                                                             *)
(***************************************************************************)
Rect(x, y, w, h) == [x |-> x, y |-> y, w |-> w, h |-> h]

Right(r) == r.x + r.w

Bottom(r) == r.y + r.h

CenterX(r) == r.x + (r.w \div 2)

CenterY(r) == r.y + (r.h \div 2)

\* rect.center = (cx, cy): the size is kept
SetCenter(r, cx, cy) == Rect(cx - (r.w \div 2), cy - (r.h \div 2), r.w, r.h)

\* rect.size = (w, h): the top left corner is kept
SetSize(r, w, h) == Rect(r.x, r.y, w, h)

MoveIp(r, dx, dy) == Rect(r.x + dx, r.y + dy, r.w, r.h)

\* one axis of Rect.clamp: a rect too large for the bounds is centred on them
ClampAxis(p, len, bp, blen) ==
    IF len >= blen THEN bp + (blen \div 2) - (len \div 2)
    ELSE IF p < bp THEN bp
    ELSE IF p + len > bp + blen THEN bp + blen - len
    ELSE p

ClampIp(r, b) == Rect(ClampAxis(r.x, r.w, b.x, b.w), ClampAxis(r.y, r.h, b.y, b.h), r.w, r.h)

\* Rect.collidepoint: right and bottom edges are outside
CollidePoint(r, x, y) == x >= r.x /\ x < Right(r) /\ y >= r.y /\ y < Bottom(r)

\* a colliderect for which rects that only touch collide
CollideRectTouching(a, b) ==
    /\ a.w > 0 /\ a.h > 0 /\ b.w > 0 /\ b.h > 0
    /\ a.x <= Right(b) /\ b.x <= Right(a)
    /\ a.y <= Bottom(b) /\ b.y <= Bottom(a)

\* Rect.colliderect: rects that only touch, or have no area, do not collide
CollideRect(a, b) ==
    /\ a.w > 0 /\ a.h > 0 /\ b.w > 0 /\ b.h > 0
    /\ a.x < Right(b) /\ b.x < Right(a)
    /\ a.y < Bottom(b) /\ b.y < Bottom(a)

Contains(outer, inner) ==
    /\ inner.x >= outer.x /\ Right(inner) <= Right(outer)
    /\ inner.y >= outer.y /\ Bottom(inner) <= Bottom(outer)

\* common.rect_to_bb
rect_to_bb(r) == [x1 |-> r.x, y1 |-> r.y, x2 |-> r.x + r.w - 1, y2 |-> r.y + r.h - 1]


(***************************************************************************)
(* The data source: a tiled map as pytmx presents it to TiledMapData       *)
(***************************************************************************)
TileW == 2
TileH == 2

\* kinds of tile image: 0 is "no image"
ImageKind == [g \in 1..6 |-> IF g \in {1, 5} THEN "opaque" ELSE "alpha"]

\* tmx.visible_tile_layers, in drawing order
VisibleLayers == <<0, 1, 2>>

\* the layers of the maps with animated tiles
AnimatedRows ==
    [ l \in 0..2 |->
        CASE l = 0 -> << <<1, 0, 1, 1>>,
                         <<1, 1, 1, 1>>,
                         <<1, 1, 1, 0>> >>
          [] l = 1 -> << <<3, 3, 0, 0>>,
                         <<0, 0, 0, 0>>,
                         <<0, 0, 0, 0>> >>
          [] l = 2 -> << <<0, 6, 0, 0>>,
                         <<0, 0, 0, 0>>,
                         <<0, 0, 0, 0>> >> ]

Frame(image, duration) == [image |-> image, duration |-> duration]

\* the 'frames' tile properties of further maps: durations are taken as the
\* map file gives them, zero included
FrameTables == <<
    [ g \in {3} |-> << Frame(3, 0) >> ],
    [ g \in {3} |-> << Frame(3, 1), Frame(4, 0) >> ],
    [ g \in {3, 6} |-> IF g = 3 THEN << Frame(3, 1), Frame(4, 2) >>
                       ELSE << Frame(6, 1), Frame(2, 1) >> ],
    [ g \in {3, 6} |-> IF g = 3 THEN << Frame(3, 0), Frame(4, 1) >> ELSE << Frame(6, 2) >> ],
    [ g \in {3, 6} |-> IF g = 3 THEN << Frame(3, 2) >> ELSE << Frame(6, 1), Frame(2, 0) >> ]
  >>

\* map 1 has an animated tile id (3, cycling the images 3 and 4); map 2 is static;
\* the maps from 3 on are map 1 with the frame tables above
Maps == <<
    [ width |-> 4, height |-> 3,
      rows |-> AnimatedRows,
      frames |-> [ g \in {3} |-> << [image |-> 3, duration |-> 1],
                                    [image |-> 4, duration |-> 2] >> ] ],
    [ width |-> 4, height |-> 3,
      rows |-> [ l \in 0..2 |->
                 CASE l = 0 -> << <<2, 1, 1, 1>>,
                                  <<1, 1, 1, 1>>,
                                  <<1, 1, 2, 0>> >>
                   [] l = 1 -> << <<0, 0, 0, 0>>,
                                  <<0, 6, 0, 0>>,
                                  <<0, 0, 0, 0>> >>
                   [] l = 2 -> << <<0, 0, 0, 0>>,
                                  <<0, 0, 5, 0>>,
                                  <<0, 0, 0, 0>> >> ],
      frames |-> [ g \in {} |-> <<>> ] ]
  >> \o [ i \in 1..Len(FrameTables) |->
            [ width |-> 4, height |-> 3, rows |-> AnimatedRows, frames |-> FrameTables[i] ] ]

\* seq[start:stop] of python for start >= 0: the indices (from 0) it selects
PySlice(len, start, stop) ==
    LET lo == Min(start, len)
        hi == IF stop < 0 THEN Max(len + stop, 0) ELSE Min(stop, len)
    IN  RangeSeq(lo, hi - 1)

\* the helper rev of TiledMapData.get_tile_images_by_rect: the indices it enumerates
rev(len, start, stop) == PySlice(len, IF start < 0 THEN 0 ELSE start, stop + 1)

\* tmx.layers[l].data[y][x]
Gid(tmx, x, y, l) == tmx.rows[l][y + 1][x + 1]

\* TiledMapData._get_tile_image: pytmx raises ValueError off the map
GetTileImageRaw(tmx, x, y, l) ==
    IF x >= 0 /\ x < tmx.width /\ y >= 0 /\ y < tmx.height THEN Gid(tmx, x, y, l) ELSE 0

\* PyscrollDataAdapter.get_tile_image: the substituted frame, if there is one
get_tile_image(tmx, at, x, y, l) ==
    IF <<x, y, l>> \in DOMAIN at THEN at[<<x, y, l>>] ELSE GetTileImageRaw(tmx, x, y, l)

\* the non-empty (x, y, l, gid) of the rows ys and columns xs, layer by layer
VisitedCells(tmx, xs, ys) ==
    LET Row(l, y) == SelectSeq([i \in 1..Len(xs) |-> [x |-> xs[i], y |-> y, l |-> l,
                                                        gid |-> Gid(tmx, xs[i], y, l)]],
                               LAMBDA e : e.gid # 0)
        Layer(l) == Concat([j \in 1..Len(ys) |-> Row(l, ys[j])])
    IN  Concat([k \in 1..Len(VisibleLayers) |-> Layer(VisibleLayers[k])])

\* the (x, y, l, gid) entries visited by TiledMapData.get_tile_images_by_rect, in order
VisitedByRect(tmx, rect) ==
    VisitedCells(tmx, rev(tmx.width, rect.x, rect.x + rect.w - 1),
                      rev(tmx.height, rect.y, rect.y + rect.h - 1))

\* the tile yielded for each visited entry: the substituted frame, else the image of the gid
YieldTiles(at, vis) ==
    LET img(e) == IF <<e.x, e.y, e.l>> \in DOMAIN at THEN at[<<e.x, e.y, e.l>>] ELSE e.gid
    IN  SelectSeq([i \in 1..Len(vis) |-> [x |-> vis[i].x, y |-> vis[i].y, l |-> vis[i].l,
                                           image |-> img(vis[i])]],
                  LAMBDA t : t.image # 0)

\* PyscrollDataAdapter.get_tile_images_by_rect, the default implementation: the
\* tiles it yields, got one by one with get_tile_image
DefaultTileImagesByRect(tmx, at, rect) ==
    LET bb == rect_to_bb(rect)
        xs == RangeSeq(bb.x1, bb.x2)
        ys == RangeSeq(bb.y1, bb.y2)
        Row(l, y) == SelectSeq([i \in 1..Len(xs) |->
                                    [x |-> xs[i], y |-> y, l |-> l,
                                     image |-> get_tile_image(tmx, at, xs[i], y, l)]],
                               LAMBDA t : t.image # 0)
        Layer(l) == Concat([j \in 1..Len(ys) |-> Row(l, ys[j])])
    IN  Concat([k \in 1..Len(VisibleLayers) |-> Layer(VisibleLayers[k])])

\* TiledMapData.get_tile_images_by_rect: the tiles it yields
get_tile_images_by_rect(tmx, at, rect) == YieldTiles(at, VisitedByRect(tmx, rect))

\* the positions added to the tokens for the visited entries
TrackVisited(tokens, track, vis) ==
    LET seen(g) == {<<vis[i].x, vis[i].y, vis[i].l>> : i \in {j \in 1..Len(vis) : vis[j].gid = g}}
    IN  [g \in DOMAIN tokens |->
            IF track THEN [tokens[g] EXCEPT !.positions = @ \cup seen(g)] ELSE tokens[g]]

\* TiledMapData.get_tile_images_by_rect: the positions it adds to the tokens
TrackByRect(tmx, tokens, queue, rect) ==
    TrackVisited(tokens, queue # <<>>, VisitedByRect(tmx, rect))

(***************************************************************************)
(* heapq, with AnimationToken.__lt__ as the order                          *)
(***************************************************************************)
\* AnimationToken.__lt__
TokenLt(tokens, a, b) == tokens[a].next < tokens[b].next

RECURSIVE SiftDown(_, _, _, _, _)
\* heapq._siftdown; positions count from 0
SiftDown(tokens, heap, startpos, pos, newitem) ==
    IF pos > startpos
    THEN LET parentpos == (pos - 1) \div 2
             parent == heap[parentpos + 1]
         IN  IF TokenLt(tokens, newitem, parent)
             THEN SiftDown(tokens, [heap EXCEPT ![pos + 1] = parent], startpos, parentpos, newitem)
             ELSE [heap EXCEPT ![pos + 1] = newitem]
    ELSE [heap EXCEPT ![pos + 1] = newitem]

RECURSIVE SiftUpLoop(_, _, _, _)
SiftUpLoop(tokens, heap, pos, newitem) ==
    LET endpos == Len(heap)
        childpos == 2 * pos + 1
        rightpos == childpos + 1
        pick == IF rightpos < endpos
                   /\ ~TokenLt(tokens, heap[childpos + 1], heap[rightpos + 1])
                THEN rightpos ELSE childpos
    IN  IF childpos < endpos
        THEN SiftUpLoop(tokens, [heap EXCEPT ![pos + 1] = heap[pick + 1]], pick, newitem)
        ELSE [h |-> heap, pos |-> pos]

SiftUpEnd(tokens, r, pos, newitem) == SiftDown(tokens, r.h, pos, r.pos, newitem)

\* heapq._siftup
SiftUp(tokens, heap, pos) ==
    SiftUpEnd(tokens, SiftUpLoop(tokens, heap, pos, heap[pos + 1]), pos, heap[pos + 1])

\* a push that leaves the item at the end of the list
heappushUnsifted(tokens, heap, item) == Append(heap, item)

\* heapq.heappush
heappush(tokens, heap, item) ==
    SiftDown(tokens, Append(heap, item), 0, Len(heap), item)

\* heapq.heappop: the popped item and the remaining heap
heappop(tokens, heap) ==
    LET lastelt == heap[Len(heap)]
        rest == SubSeq(heap, 1, Len(heap) - 1)
    IN  IF rest # <<>>
        THEN [item |-> heap[1], heap |-> SiftUp(tokens, [rest EXCEPT ![1] = lastelt], 0)]
        ELSE [item |-> lastelt, heap |-> rest]

(***************************************************************************)
(* AnimationToken                                                          *)
(***************************************************************************)
\* AnimationToken.__init__
AnimationToken(positions, frames, initial_time) ==
    [positions |-> positions, frames |-> frames,
     next |-> frames[1].duration + initial_time, index |-> 0]

\* AnimationToken.advance: the token after it; the frame returned is frames[index]
advance(token, last_time) ==
    LET index == IF token.index = Len(token.frames) - 1 THEN 0 ELSE token.index + 1
    IN  [token EXCEPT !.index = index,
                      !.next = token.frames[index + 1].duration + last_time]

CurrentFrame(token) == token.frames[token.index + 1]


(***************************************************************************)
(* FastQuadTree                                                            *)
(***************************************************************************)
\* the bounding rect computed from the items with Rect.union_ip
UnionAll(items) ==
    LET x1 == CHOOSE v \in {i.x : i \in items} : \A i \in items : v <= i.x
        y1 == CHOOSE v \in {i.y : i \in items} : \A i \in items : v <= i.y
        x2 == CHOOSE v \in {Right(i) : i \in items} : \A i \in items : v >= Right(i)
        y2 == CHOOSE v \in {Bottom(i) : i \in items} : \A i \in items : v >= Bottom(i)
    IN  Rect(x1, y1, x2 - x1, y2 - y1)

\* which sub-quadrants an item is filed under
InNW(item, cx, cy) == item.x <= cx /\ item.y <= cy

InSW(item, cx, cy) == item.x <= cx /\ Bottom(item) >= cy

InNE(item, cx, cy) == Right(item) >= cx /\ item.y <= cy

InSE(item, cx, cy) == Right(item) >= cx /\ Bottom(item) >= cy

RECURSIVE FastQuadTree(_, _, _)
\* FastQuadTree.__init__; bounding is <<>> (None) or <<a 4-tuple>>, which the
\* constructor reads as a Rect (x, y, w, h); an absent quadrant is <<>>
FastQuadTree(items, depth, bounding) ==
    IF depth - 1 = 0 \/ items = {}
    THEN [items |-> items, cx |-> 0, cy |-> 0,
          nw |-> <<>>, ne |-> <<>>, se |-> <<>>, sw |-> <<>>]
    ELSE LET br == IF bounding # <<>> THEN bounding[1] ELSE UnionAll(items)
             cx == CenterX(br)
             cy == CenterY(br)
             all4(i) == InNW(i, cx, cy) /\ InNE(i, cx, cy) /\ InSE(i, cx, cy) /\ InSW(i, cx, cy)
             rest == {i \in items : ~all4(i)}
             nw_items == {i \in rest : InNW(i, cx, cy)}
             ne_items == {i \in rest : InNE(i, cx, cy)}
             se_items == {i \in rest : InSE(i, cx, cy)}
             sw_items == {i \in rest : InSW(i, cx, cy)}
             sub(its, b) == IF its # {} THEN <<FastQuadTree(its, depth - 1, <<b>>)>> ELSE <<>>
         IN  [items |-> {i \in items : all4(i)}, cx |-> cx, cy |-> cy,
              nw |-> sub(nw_items, Rect(br.x, br.y, cx, cy)),
              ne |-> sub(ne_items, Rect(cx, br.y, Right(br), cy)),
              se |-> sub(se_items, Rect(cx, cy, Right(br), Bottom(br))),
              sw |-> sub(sw_items, Rect(br.x, cy, cx, Bottom(br)))]

\* a query that never descends into the south-east quadrant
HitSENever(rect, cx, cy) == FALSE

\* whether a query descends into each quadrant
HitNW(rect, cx, cy) == rect.x <= cx /\ rect.y <= cy

HitSW(rect, cx, cy) == rect.x <= cx /\ Bottom(rect) >= cy

HitNE(rect, cx, cy) == Right(rect) >= cx /\ rect.y <= cy

HitSE(rect, cx, cy) == Right(rect) >= cx /\ Bottom(rect) >= cy

RECURSIVE hit(_, _)
\* FastQuadTree.hit
hit(tree, rect) ==
    LET below(q, descend) == IF q # <<>> /\ descend THEN hit(q[1], rect) ELSE {}
    IN  {i \in tree.items : CollideRect(rect, i)}
        \cup below(tree.nw, HitNW(rect, tree.cx, tree.cy))
        \cup below(tree.sw, HitSW(rect, tree.cx, tree.cy))
        \cup below(tree.ne, HitNE(rect, tree.cx, tree.cy))
        \cup below(tree.se, HitSE(rect, tree.cx, tree.cy))

RECURSIVE TreeItems(_)
\* every item stored anywhere in a tree
TreeItems(tree) ==
    LET below(q) == IF q # <<>> THEN TreeItems(q[1]) ELSE {}
    IN  tree.items \cup below(tree.nw) \cup below(tree.sw) \cup below(tree.ne) \cup below(tree.se)

(***************************************************************************)
(* Surfaces, at tile granularity                                           *)
(***************************************************************************)
\* Surface.blit of one tile image onto one cell
BlitImage(stack, image) ==
    IF ImageKind[image] = "opaque" THEN <<image>> ELSE Append(stack, image)

\* a new surface of w by h tiles
NewSurface(w, h) == [c \in (0..(w - 1)) \X (0..(h - 1)) |-> <<>>]

\* BufferedRenderer._clear_surface on a tile-aligned area given in cells
ClearSurface(cells, area) ==
    [c \in DOMAIN cells |-> IF CollidePoint(area, c[1], c[2]) THEN <<>> ELSE cells[c]]

\* Surface.scroll(-dx * tw, -dy * th): cells nothing moves into keep their content
ScrollSurface(cells, dx, dy) ==
    [c \in DOMAIN cells |->
        IF <<c[1] + dx, c[2] + dy>> \in DOMAIN cells THEN cells[<<c[1] + dx, c[2] + dy>>]
        ELSE cells[c]]

RECURSIVE FlushTileQueue(_, _, _)
\* BufferedRenderer._flush_tile_queue: blits outside the surface are clipped away
FlushTileQueue(cells, tv, tq) ==
    IF tq = <<>> THEN cells
    ELSE LET t == Head(tq)
             c == <<t.x - tv.x, t.y - tv.y>>
         IN  FlushTileQueue(IF c \in DOMAIN cells
                            THEN [cells EXCEPT ![c] = BlitImage(@, t.image)]
                            ELSE cells,
                            tv, Tail(tq))

\* BufferedRenderer.redraw_tiles: the buffer after it
RedrawTiles(tmx, at, tv) ==
    FlushTileQueue(NewSurface(tv.w, tv.h), tv, get_tile_images_by_rect(tmx, at, tv))

\* edge rects taken from the column past the right side and the row past the bottom
EdgeRectsPast(v, dx, dy) ==
    (IF dx > 0 THEN <<Rect(Right(v), v.y, dx, v.h)>>
     ELSE IF dx < 0 THEN <<Rect(v.x, v.y, -dx, v.h)>>
     ELSE <<>>)
    \o
    (IF dy > 0 THEN <<Rect(v.x, Bottom(v), v.w, dy)>>
     ELSE IF dy < 0 THEN <<Rect(v.x, v.y, v.w, -dy)>>
     ELSE <<>>)

\* the edge rects BufferedRenderer._queue_edge_tiles appends, in order
EdgeRects(v, dx, dy) ==
    (IF dx > 0 THEN <<Rect(Right(v) - 1, v.y, dx, v.h)>>
     ELSE IF dx < 0 THEN <<Rect(v.x, v.y, -dx, v.h)>>
     ELSE <<>>)
    \o
    (IF dy > 0 THEN <<Rect(v.x, Bottom(v) - 1, v.w, dy)>>
     ELSE IF dy < 0 THEN <<Rect(v.x, v.y, v.w, -dy)>>
     ELSE <<>>)

RECURSIVE ClearRects(_, _, _)
ClearRects(cells, v, rects) ==
    IF rects = <<>> THEN cells
    ELSE ClearRects(ClearSurface(cells, MoveIp(Head(rects), -v.x, -v.y)), v, Tail(rects))

RECURSIVE TrackRects(_, _, _, _)
TrackRects(tmx, tokens, queue, rects) ==
    IF rects = <<>> THEN tokens
    ELSE TrackRects(tmx, TrackByRect(tmx, tokens, queue, Head(rects)), queue, Tail(rects))

\* BufferedRenderer._queue_edge_tiles: the tile queue it chains together
queue_edge_tiles(tmx, at, v, dx, dy) ==
    LET rects == EdgeRects(v, dx, dy)
    IN  Concat([i \in 1..Len(rects) |-> get_tile_images_by_rect(tmx, at, rects[i])])


(***************************************************************************)
(* PyscrollDataAdapter: the animation queue                                *)
(***************************************************************************)
\* the order in which the positions of a token are visited (left to right, top
\* to bottom, low layer first)
PosBefore(p, q) ==
    \/ p[2] < q[2]
    \/ p[2] = q[2] /\ p[1] < q[1]
    \/ p[2] = q[2] /\ p[1] = q[1] /\ p[3] <= q[3]

RECURSIVE PositionSeq(_)
PositionSeq(S) ==
    IF S = {} THEN <<>>
    ELSE LET m == CHOOSE m \in S : \A o \in S : PosBefore(m, o)
         IN  <<m>> \o PositionSeq(S \ {m})

\* the column of tiles queued for one position of an advanced token
AnimationColumn(tmx, at, pos, image) ==
    LET entry(layer) ==
            IF layer = pos[3]
            THEN <<[x |-> pos[1], y |-> pos[2], l |-> layer, image |-> image]>>
            ELSE LET im == get_tile_image(tmx, at, pos[1], pos[2], layer)
                 IN  IF im # 0
                     THEN <<[x |-> pos[1], y |-> pos[2], l |-> layer, image |-> im]>>
                     ELSE <<>>
    IN  Concat([k \in 1..Len(VisibleLayers) |-> entry(VisibleLayers[k])])

\* the substitution recorded for a position on the buffer
RecordFrame(at, pos, image) ==
    [p \in DOMAIN at \cup {pos} |-> IF p = pos THEN image ELSE at[p]]

\* a token that keeps the positions which have left the tile view
UntrackNever(positions, pos) == positions

\* token.positions.remove(position)
Untrack(positions, pos) == positions \ {pos}

RECURSIVE ProcessPositions(_, _, _, _, _, _)
\* the for loop of process_animation_queue over token.positions.copy()
ProcessPositions(tmx, tile_view, g, image, todo, st) ==
    IF todo = <<>> THEN st
    ELSE LET pos == Head(todo)
             at1 == RecordFrame(st.at, pos, image)
         IN  ProcessPositions(tmx, tile_view, g, image, Tail(todo),
                IF CollidePoint(tile_view, pos[1], pos[2])
                THEN [st EXCEPT !.at = at1,
                                !.new_tiles = @ \o AnimationColumn(tmx, at1, pos, image)]
                ELSE [st EXCEPT !.tokens[g].positions = Untrack(@, pos)])

\* the token popped by the loop, advanced and pushed back
AdvancePopped(st, pop, last_time) ==
    LET g == pop.item
        tokens1 == [st.tokens EXCEPT ![g] = advance(@, last_time)]
    IN  [st EXCEPT !.tokens = tokens1,
                   !.queue = heappush(tokens1, pop.heap, g),
                   !.advanced = Append(@, g)]

AnimationPositions(tmx, tile_view, g, st) ==
    ProcessPositions(tmx, tile_view, g, CurrentFrame(st.tokens[g]).image,
                     PositionSeq(st.tokens[g].positions), st)

AnimationAfterPop(tmx, tile_view, last_time, st, pop) ==
    AnimationPositions(tmx, tile_view, pop.item, AdvancePopped(st, pop, last_time))

\* one round of the while loop of process_animation_queue
AnimationLoopBody(tmx, tile_view, last_time, st) ==
    AnimationAfterPop(tmx, tile_view, last_time, st, heappop(st.tokens, st.queue))

\* the test of the while loop of process_animation_queue
AnimationDue(st, last_time) == st.tokens[st.queue[1]].next <= last_time

RECURSIVE AnimationLoop(_, _, _, _)
AnimationLoop(tmx, tile_view, last_time, st) ==
    IF AnimationDue(st, last_time)
    THEN AnimationLoop(tmx, tile_view, last_time, AnimationLoopBody(tmx, tile_view, last_time, st))
    ELSE st

\* a process_animation_queue that tests for a due token only after the first round
process_animation_queue_eager(tmx, tile_view, last_time, tokens, queue, at) ==
    LET st == [tokens |-> tokens, queue |-> queue, at |-> at,
               new_tiles |-> <<>>, advanced |-> <<>>]
    IN  IF queue = <<>> THEN st
        ELSE AnimationLoop(tmx, tile_view, last_time,
                           AnimationLoopBody(tmx, tile_view, last_time, st))

\* PyscrollDataAdapter.process_animation_queue, after _update_time: new_tiles is
\* what it returns, advanced lists the tokens it advanced, in order
process_animation_queue(tmx, tile_view, last_time, tokens, queue, at) ==
    LET st == [tokens |-> tokens, queue |-> queue, at |-> at,
               new_tiles |-> <<>>, advanced |-> <<>>]
    IN  IF queue = <<>> THEN st
        ELSE IF tokens[queue[1]].next > last_time THEN st
        ELSE AnimationLoop(tmx, tile_view, last_time, st)

RECURSIVE PushTokens(_, _, _)
PushTokens(tokens, heap, gids) ==
    IF gids = <<>> THEN heap
    ELSE PushTokens(tokens, heappush(tokens, heap, Head(gids)), Tail(gids))

RECURSIVE GidSeq(_)
GidSeq(S) == IF S = {} THEN <<>>
             ELSE LET m == CHOOSE m \in S : \A o \in S : m <= o IN <<m>> \o GidSeq(S \ {m})

\* PyscrollDataAdapter.reload_animations: the tokens and the heap it builds
ReloadTokens(frames, last_time) ==
    [g \in DOMAIN frames |-> AnimationToken({}, frames[g], last_time)]

ReloadQueue(frames, last_time) ==
    PushTokens(ReloadTokens(frames, last_time), <<>>, GidSeq(DOMAIN frames))

(***************************************************************************)
(* BufferedRenderer                                                        *)
(***************************************************************************)
\* zoom levels are the rationals n / d with d > 0
ZoomIsOne(z) == z.n = z.d

\* the test of BufferedRenderer._calculate_zoom_buffer_size that raises ValueError
ZoomRaises(value) == value.n <= 0

\* BufferedRenderer._calculate_zoom_buffer_size, for a zoom it accepts
calculate_zoom_buffer_size(size, value) ==
    <<(size[1] * value.d) \div value.n, (size[2] * value.d) \div value.n>>

\* a grid that leaves out the extra column and row of the buffer
CellRectsOfView(w, h) ==
    {Rect(x * TileW, y * TileH, TileW, TileH) : x \in 0..(w - 2), y \in 0..(h - 2)}

\* the cell rects BufferedRenderer._initialize_buffers indexes
CellRects(w, h) == {Rect(x * TileW, y * TileH, TileW, TileH) : x \in 0..(w - 1), y \in 0..(h - 1)}

QuadTreeDepth == 4

\* buffers initialized with a cutoff of two tiles
initialize_buffers_cutoff2(tmx, vr, view_size, tokens, queue, at) ==
    LET buffer_tile_width == CeilDiv(view_size[1], TileW) + 1
        buffer_tile_height == CeilDiv(view_size[2], TileH) + 1
        tv == Rect(0, 0, buffer_tile_width, buffer_tile_height)
    IN  [map_rect |-> Rect(0, 0, tmx.width * TileW, tmx.height * TileH),
         view_rect |-> SetSize(vr, view_size[1], view_size[2]),
         tile_view |-> tv,
         redraw_cutoff |-> 2,
         zoom_buffer |-> view_size,
         half_width |-> view_size[1] \div 2,
         half_height |-> view_size[2] \div 2,
         x_offset |-> 0,
         y_offset |-> 0,
         layer_quadtree |-> FastQuadTree(CellRects(buffer_tile_width, buffer_tile_height),
                                         QuadTreeDepth, <<>>),
         buffer |-> RedrawTiles(tmx, at, tv),
         tokens |-> TrackByRect(tmx, tokens, queue, tv)]

\* BufferedRenderer._initialize_buffers: the fields it sets
initialize_buffers(tmx, vr, view_size, tokens, queue, at) ==
    LET buffer_tile_width == CeilDiv(view_size[1], TileW) + 1
        buffer_tile_height == CeilDiv(view_size[2], TileH) + 1
        tv == Rect(0, 0, buffer_tile_width, buffer_tile_height)
    IN  [map_rect |-> Rect(0, 0, tmx.width * TileW, tmx.height * TileH),
         view_rect |-> SetSize(vr, view_size[1], view_size[2]),
         tile_view |-> tv,
         redraw_cutoff |-> 1,
         zoom_buffer |-> view_size,
         half_width |-> view_size[1] \div 2,
         half_height |-> view_size[2] \div 2,
         x_offset |-> 0,
         y_offset |-> 0,
         layer_quadtree |-> FastQuadTree(CellRects(buffer_tile_width, buffer_tile_height),
                                         QuadTreeDepth, <<>>),
         buffer |-> RedrawTiles(tmx, at, tv),
         tokens |-> TrackByRect(tmx, tokens, queue, tv)]


(***************************************************************************)
(* State                                                                   *)
(***************************************************************************)
(***************************************************************************)
(* BufferedRenderer._draw_surfaces.  A surface passed to draw() is a sprite *)
(* [rect, layer]: its image has the size of its rect.                      *)
(***************************************************************************)
\* BufferedRenderer.tall_sprites, as the constructor defaults it
tall_sprites == 0

\* the rect, in buffer coordinates, in which a sprite damages the tiles
DamageRect(r, ox, oy) ==
    LET d == MoveIp(r, ox, oy)
    IN  IF tall_sprites # 0
        THEN Rect(d.x, d.y + (d.h - tall_sprites), d.w, tall_sprites)
        ELSE d

\* a renderer that never takes a tile to lie over a sprite
IsOverNever(dl, l) == FALSE

\* whether a tile on layer l is drawn again for damage done on layer dl
IsOver(dl, l) == dl <= l

\* the blit_op of each surface, in the order passed
SpriteOps(sprs) ==
    [i \in 1..Len(sprs) |->
        [l |-> sprs[i].layer, priority |-> 1, x |-> sprs[i].rect.x, y |-> sprs[i].rect.y,
         order |-> i - 1, s |-> [kind |-> "sprite", id |-> i], keep |-> TRUE]]

\* sprite_damage: the (layer, cell rect) pairs of the cells the sprites overlap
SpriteDamage(tree, sprs, ox, oy, top_layer) ==
    UNION {{<<sprs[i].layer, h>> : h \in hit(tree, DamageRect(sprs[i].rect, ox, oy))} :
           i \in {j \in 1..Len(sprs) : sprs[j].layer <= top_layer}}

DamageBefore(a, b) ==
    \/ a[1] < b[1]
    \/ a[1] = b[1] /\ a[2].y < b[2].y
    \/ a[1] = b[1] /\ a[2].y = b[2].y /\ a[2].x <= b[2].x

RECURSIVE DamageSeq(_)
\* an order in which the set sprite_damage is iterated: the list drawn is the
\* same for every order, since equal sort keys belong to equal tiles
DamageSeq(S) ==
    IF S = {} THEN <<>>
    ELSE LET m == CHOOSE m \in S : \A o \in S : DamageBefore(m, o)
         IN  <<m>> \o DamageSeq(S \ {m})

\* the column of tiles of one damaged cell; keep is is_over when the column ends
DamageColumn(tmx, at, tv, d, ox, oy) ==
    LET tx == d[2].x \div d[2].w + tv.x
        ty == d[2].y \div d[2].h + tv.y
        tiles == SelectSeq([k \in 1..Len(VisibleLayers) |->
                                [l |-> VisibleLayers[k],
                                 image |-> get_tile_image(tmx, at, tx, ty, VisibleLayers[k])]],
                           LAMBDA t : t.image # 0)
        is_over == \E k \in 1..Len(tiles) : IsOver(d[1], tiles[k].l)
    IN  [k \in 1..Len(tiles) |->
            [l |-> tiles[k].l, priority |-> 0, x |-> d[2].x - ox, y |-> d[2].y - oy,
             order |-> 0, s |-> [kind |-> "tile", id |-> tiles[k].image], keep |-> is_over]]

\* tuple comparison of two blit_ops, as list.sort() makes it
BlitBefore(a, b) ==
    \/ a.l < b.l
    \/ a.l = b.l /\ a.priority < b.priority
    \/ a.l = b.l /\ a.priority = b.priority /\ a.x < b.x
    \/ a.l = b.l /\ a.priority = b.priority /\ a.x = b.x /\ a.y < b.y
    \/ a.l = b.l /\ a.priority = b.priority /\ a.x = b.x /\ a.y = b.y /\ a.order < b.order

\* the columns with the order counter filled in
NumberColumns(ops, first) == [k \in 1..Len(ops) |-> [ops[k] EXCEPT !.order = first + k - 1]]

\* blit_list before it is sorted: the sprites, then the columns that are kept
BlitList(sprite_ops, column_ops) ==
    sprite_ops \o SelectSeq(NumberColumns(column_ops, Len(sprite_ops)), LAMBDA b : b.keep)

\* draw_list2: what is blitted, in order; l is the layer the blit was sorted by
DrawList(sorted) ==
    [k \in 1..Len(sorted) |-> [s |-> sorted[k].s, x |-> sorted[k].x, y |-> sorted[k].y,
                                l |-> sorted[k].l]]

DrawSurfacesOf(tmx, at, tv, ox, oy, sprs, damage) ==
    DrawList(SortSeq(BlitList(SpriteOps(sprs),
                              Concat([k \in 1..Len(damage) |->
                                        DamageColumn(tmx, at, tv, damage[k], ox, oy)])),
                     BlitBefore))

\* BufferedRenderer._draw_surfaces: the list it blits onto the target
DrawSurfaces(tmx, at, tv, tree, ox, oy, sprs) ==
    DrawSurfacesOf(tmx, at, tv, ox, oy, sprs,
                   DamageSeq(SpriteDamage(tree, sprs, ox, oy, VisibleLayers[Len(VisibleLayers)])))

VARIABLES
    map_id,          \* which of Maps the data source holds
    clamp_camera,    \* BufferedRenderer.clamp_camera
    size,            \* BufferedRenderer._size
    zoom_level,      \* BufferedRenderer._zoom_level
    view_rect,       \* BufferedRenderer.view_rect
    map_rect,        \* BufferedRenderer.map_rect
    tile_view,       \* BufferedRenderer._tile_view
    redraw_cutoff,   \* BufferedRenderer._redraw_cutoff
    zoom_buffer,     \* size of BufferedRenderer._zoom_buffer
    half_width,      \* BufferedRenderer._half_width
    half_height,     \* BufferedRenderer._half_height
    x_offset,        \* BufferedRenderer._x_offset
    y_offset,        \* BufferedRenderer._y_offset
    anchored_view,   \* BufferedRenderer._anchored_view
    layer_quadtree,  \* BufferedRenderer._layer_quadtree
    buffer,          \* BufferedRenderer._buffer
    last_time,       \* PyscrollDataAdapter._last_time
    animation_queue, \* PyscrollDataAdapter._animation_queue, a heap of tile ids
    tokens,          \* PyscrollDataAdapter._animation_map
    animated_tile,   \* PyscrollDataAdapter._animated_tile
    clock,           \* the wall clock, in milliseconds
    last_op,         \* the last operation and the path it took
    init_buffer,     \* the buffer as the last _initialize_buffers left it
    pc,              \* where a call of process_animation_queue stands: "idle" or "loop"
    pending,         \* the locals of a call of process_animation_queue in progress
    surfaces,        \* the surfaces passed to the last draw()
    blits,           \* the list the last _draw_surfaces handed to Surface.blits
    qt_items,        \* the rects a FastQuadTree was built from, on its own
    qt_tree,         \* that FastQuadTree
    qt_query,        \* <<rect>> of the last hit() on it, <<>> before the first
    qt_hits,         \* what that hit() returned
    time_source,     \* what BufferedRenderer.time_source returns when called, in ms
    colorkey,        \* the colorkey argument of the constructor
    alpha,           \* the alpha argument of the constructor
    clear_color,     \* BufferedRenderer._clear_color
    constructed,     \* "no" before the constructor runs, "yes" after it, "raised" if it raised
    fetch_rect,      \* <<rect>> of the last get_tile_images_by_rect made on its own, else <<>>
    fetch_tiles,     \* what TiledMapData.get_tile_images_by_rect yielded for it
    fetch_default,   \* what PyscrollDataAdapter.get_tile_images_by_rect yields for it
    agg_maps,        \* MapAggregator.maps: a list of (data, rect)
    agg_min_x,       \* MapAggregator._min_x
    agg_min_y,       \* MapAggregator._min_y
    agg_map_size,    \* MapAggregator.map_size
    agg_call,        \* the last call on the aggregator: its arguments and the state before it
    th_r,            \* pyscroll.ThreadedRenderer: view, old_x, old_y, xoffset, yoffset, idle, blank
    th_queue,        \* ThreadedRenderer.queue: the coordinates put and not yet got
    th_unfinished,   \* Queue.unfinished_tasks: put and not yet task_done
    th_lock,         \* ThreadedRenderer.lock: "free" or the thread that holds it
    th_render,       \* the render thread: where it stands, in which call, with which locals
    th_worker,       \* TileThread.run: where it stands and its locals
    th_write,        \* the last write to the pixels of the buffer: by whom, holding the lock or not
    th_waited,       \* the call the render thread is in, or was in last, had to wait in join()
    real_ratio_x,    \* BufferedRenderer._real_ratio_x, a fraction
    real_ratio_y,    \* BufferedRenderer._real_ratio_y
    tr_point,        \* the last point translated, <<>> for none
    tr_one,          \* what translate_point returned for it
    tr_many          \* what translate_points returned for the list of it alone

rvars == <<clamp_camera, size, zoom_level, view_rect, map_rect, tile_view, redraw_cutoff,
           zoom_buffer, half_width, half_height, x_offset, y_offset, anchored_view,
           layer_quadtree, buffer>>

dvars == <<map_id, last_time, animation_queue, tokens, animated_tile>>

\* a draw() in progress and what the last one was given and blitted
avars == <<pc, pending, surfaces, blits>>

qvars == <<qt_items, qt_tree, qt_query, qt_hits>>

\* the arguments of the constructor the renderer keeps
kvars == <<colorkey, alpha, clear_color, constructed>>

\* a fetch made on the data source on its own
fvars == <<fetch_rect, fetch_tiles, fetch_default>>

\* a MapAggregator, on its own
mvars == <<agg_maps, agg_min_x, agg_min_y, agg_map_size, agg_call>>

\* a ThreadedRenderer and its TileThread, on their own
tvars == <<th_r, th_queue, th_unfinished, th_lock, th_render, th_worker, th_write, th_waited>>

\* the ratios of the zoom
zvars == <<real_ratio_x, real_ratio_y>>

\* the last translation of a point
pvars == <<tr_point, tr_one, tr_many>>

cvars == <<time_source, kvars, fvars, mvars, tvars, zvars, pvars>>

vars == <<rvars, dvars, clock, last_op, init_buffer, avars, qvars, cvars>>

tmx == Maps[map_id]

Op(op, path) == [op |-> op, path |-> path]

NoSubstitutions == [p \in {} |-> 0]

\* the locals of process_animation_queue when it starts
NoPending == [new_tiles |-> <<>>, advanced |-> <<>>]

ZoomOne == [n |-> 1, d |-> 1]

\* None, and whatever else has not been assigned yet
None == <<>>

\* BufferedRenderer._rgba_clear_color
rgba_clear_color == <<0, 0, 0, 0>>

\* a constructor that accepts colorkey together with alpha
CtorRaisesNever(ck, al) == FALSE

\* __init__: "if colorkey and alpha: raise ValueError"
CtorRaises(ck, al) == ck # None /\ al

\* __init__: the _clear_color chosen when it does not raise
ClearColor(ck, al) == IF ck # None THEN ck ELSE IF al THEN rgba_clear_color ELSE None

\* inputs of the operations
Sprite(rect, layer) == [rect |-> rect, layer |-> layer]

\* the sprites handed to draw(): rects in screen coordinates, on and above the tile layers
Sprites == {Sprite(r, l) : r \in {Rect(0, 0, 2, 2), Rect(1, 0, 1, 2), Rect(-1, 1, 2, 1)},
                           l \in 0..3}

SurfaceLists ==
    {<<a>> : a \in Sprites}
    \cup {<<a, b>> : a \in {c \in Sprites : c.rect = Rect(0, 0, 2, 2)},
                     b \in {c \in Sprites : c.rect = Rect(1, 0, 1, 2)}}

InitSizes == {<<2, 2>>}

Sizes == {<<2, 2>>, <<4, 2>>}

Zooms == {ZoomOne, [n |-> 2, d |-> 1], [n |-> 0, d |-> 1], [n |-> -1, d |-> 1]}

\* coordinates passed to center(), in halves: whole pixels and two ties
CenterXs == {-2, 2, 5, 8, 2 * MaxCoord}

CenterYs == {-2, 2, 7, 2 * MaxCoord - 4}

ScrollVectors == {<<2, 0>>, <<-2, 0>>, <<0, 2>>, <<0, -2>>, <<2, 2>>, <<-2, -2>>, <<1, -1>>}

(***************************************************************************)
(* MapAggregator(tile_size)                                                *)
(***************************************************************************)
\* the data sources handed to add_map and remove_map: the third has tiles of
\* another size than the aggregator's
DataSources ==
    { [id |-> 1, tile_size |-> <<TileW, TileH>>, map_size |-> <<2, 2>>],
      [id |-> 2, tile_size |-> <<TileW, TileH>>, map_size |-> <<3, 1>>],
      [id |-> 3, tile_size |-> <<2 * TileW, 2 * TileH>>, map_size |-> <<1, 1>>] }

\* MapAggregator.tile_size
AggTileSize == <<TileW, TileH>>

\* the fields of the aggregator a call may change
AggState == [maps |-> agg_maps, min_x |-> agg_min_x, min_y |-> agg_min_y,
             map_size |-> agg_map_size]

NoCall == [op |-> "none", data |-> 0, offset |-> <<0, 0>>, before |-> <<>>]

\* MapAggregator.__init__
NewAggregator ==
    /\ agg_maps = <<>>
    /\ agg_min_x = 0
    /\ agg_min_y = 0
    /\ agg_map_size = <<0, 0>>
    /\ agg_call = NoCall

\* mx after the loop "mx = max(mx, rect.right)" over the maps, from 0
MaxRight(seq) ==
    LET S == {Right(seq[i].rect) : i \in 1..Len(seq)} \cup {0}
    IN  CHOOSE m \in S : \A o \in S : o <= m

\* my after the loop "my = max(my, rect.bottom)" over the maps, from 0
MaxBottom(seq) ==
    LET S == {Bottom(seq[i].rect) : i \in 1..Len(seq)} \cup {0}
    IN  CHOOSE m \in S : \A o \in S : o <= m

\* MapAggregator.add_map after its assert: the fields it leaves
AddMapCalc(d, offset) ==
    LET rect == Rect(offset[1], offset[2], d.map_size[1], d.map_size[2])
        ox == agg_min_x - offset[1]
        oy == agg_min_y - offset[2]
        min_x == Min(agg_min_x, offset[1])
        min_y == Min(agg_min_y, offset[2])
        appended == Append(agg_maps, [data |-> d.id, rect |-> rect])
        all_moved == [i \in 1..Len(appended) |->
                        [appended[i] EXCEPT !.rect = MoveIp(@, ox, oy)]]
        new_moved == MoveIp(rect, -min_x, -min_y)
    IN  IF ox > 0 \/ oy > 0
        THEN [maps |-> all_moved, min_x |-> min_x, min_y |-> min_y,
              map_size |-> <<MaxRight(all_moved), MaxBottom(all_moved)>>]
        ELSE [maps |-> [appended EXCEPT ![Len(appended)].rect = new_moved],
              min_x |-> min_x, min_y |-> min_y,
              map_size |-> <<Max(0, Right(new_moved)), Max(0, Bottom(new_moved))>>]

(***************************************************************************)
(* pyscroll.ThreadedRenderer(data, size, colorkey, padding, clamp_camera)  *)
(* and its TileThread                                                      *)
(***************************************************************************)
\* the arguments it is constructed with: size in pixels, padding in tiles
ThreadSize == <<2, 2>>

ThreadPadding == 2

\* the map it renders
ThreadMap == Maps[2]

\* ThreadedRenderer.rect: the pixel size of the whole map
ThreadMapRect == Rect(0, 0, ThreadMap.width * TileW, ThreadMap.height * TileH)

\* BufferedRenderer.get_tile_image: the default image (1) where the data raises ValueError
ThreadTile(c) ==
    IF c[1] >= 0 /\ c[1] < ThreadMap.width /\ c[2] >= 0 /\ c[2] < ThreadMap.height
    THEN Gid(ThreadMap, c[1], c[2], c[3])
    ELSE 1

\* product(xs, ys, layers), the first index slowest
Product3(xs, ys) ==
    Concat([i \in 1..Len(xs) |->
        Concat([j \in 1..Len(ys) |->
            [k \in 1..Len(VisibleLayers) |-> <<xs[i], ys[j], VisibleLayers[k]>>]])])

\* BufferedRenderer.get_edge_tiles for the view moved by (x, y) tiles
get_edge_tiles(view, x, y) ==
    LET xq == IF x > 0
              THEN Product3(RangeSeq(Right(view) - x - 1, Right(view) - 1),
                            RangeSeq(view.y, Bottom(view) - 1))
              ELSE IF x < 0
              THEN Product3(RangeSeq(view.x, view.x - x - 1), RangeSeq(view.y, Bottom(view) - 1))
              ELSE <<>>
        yq == IF y > 0
              THEN Product3(RangeSeq(view.x, Right(view) - 1),
                            RangeSeq(Bottom(view) - y - 1, Bottom(view) - 1))
              ELSE IF y < 0
              THEN Product3(RangeSeq(view.x, Right(view) - 1), RangeSeq(view.y, view.y - y - 1))
              ELSE <<>>
    IN  yq \o xq

\* the queue of BufferedRenderer.redraw: every coordinate of the view
RedrawQueue(view) ==
    Product3(RangeSeq(view.x, Right(view) - 1), RangeSeq(view.y, Bottom(view) - 1))

\* BufferedRenderer.set_size: the view, in tiles
ThreadView(sz, padding) ==
    Rect(0, 0, CeilDiv(sz[1] + TileW * padding, TileW),
               CeilDiv(sz[2] + TileH * padding, TileH))

NoWrite == [by |-> "none", op |-> "none", locked |-> FALSE]

\* the render thread between two calls
RenderIdle == [pc |-> "idle", call |-> "none", dx |-> 0, dy |-> 0, x |-> 0, y |-> 0]

\* TileThread.run blocked in tile_queue.get()
WorkerGet == [pc |-> "get", item |-> <<>>, tile |-> 0, old_tiles |-> {}, wrote |-> "none",
              ltw |-> 0, tth |-> 0, put_at |-> <<0, 0>>]

\* ThreadedRenderer.__init__(data, size, colorkey, padding, clamp_camera), the thread started
NewThreadedWith(ck, cc) ==
    /\ th_r = [view |-> ThreadView(ThreadSize, ThreadPadding), old_x |-> 0, old_y |-> 0,
               xoffset |-> 0, yoffset |-> 0, idle |-> FALSE, blank |-> TRUE,
               colorkey |-> ck, clamp_camera |-> cc]
    /\ th_queue = <<>>
    /\ th_unfinished = 0
    /\ th_lock = "free"
    /\ th_render = RenderIdle
    /\ th_worker = WorkerGet
    /\ th_write = NoWrite
    /\ th_waited = FALSE

\* ThreadedRenderer(data, size): colorkey=None, clamp_camera=False
NewThreaded == NewThreadedWith(FALSE, FALSE)

(***************************************************************************)
(* The ratios of the zoom and the translation of points                    *)
(***************************************************************************)
RECURSIVE Gcd(_, _)
Gcd(a, b) == IF b = 0 THEN a ELSE Gcd(b, a % b)

\* the float a / b for positive b, as a fraction in lowest terms
Ratio(a, b) == [n |-> a \div Gcd(Abs(a), b), d |-> b \div Gcd(Abs(a), b)]

\* _real_ratio_x = 1.0
RatioOne == [n |-> 1, d |-> 1]

\* no point was translated yet
NoTranslation == tr_point = <<>> /\ tr_one = <<>> /\ tr_many = <<>>

(***************************************************************************)
(* Construction: TiledMapData(tmx), then BufferedRenderer(data, size, ...) *)
(***************************************************************************)
\* the fields the constructor leaves: __init__ up to and including set_size(size)
NewRenderer(m, cl, sz, ck, al) ==
    LET ib == initialize_buffers(Maps[m], Rect(0, 0, 0, 0),
                                 calculate_zoom_buffer_size(sz, ZoomOne),
                                 ReloadTokens(Maps[m].frames, 0),
                                 ReloadQueue(Maps[m].frames, 0), NoSubstitutions)
    IN  [clamp_camera |-> cl, size |-> sz, zoom_level |-> ZoomOne, ib |-> ib,
         anchored_view |-> TRUE, last_time |-> 0,
         animation_queue |-> ReloadQueue(Maps[m].frames, 0),
         animated_tile |-> NoSubstitutions,
         colorkey |-> ck, alpha |-> al, clear_color |-> ClearColor(ck, al)]

ConstructWith(m, cl, sz, ck, al) ==
        \E new \in {NewRenderer(m, cl, sz, ck, al)} :
            /\ map_id = m
            /\ clamp_camera = new.clamp_camera
            /\ size = new.size
            /\ zoom_level = new.zoom_level
            /\ view_rect = new.ib.view_rect
            /\ map_rect = new.ib.map_rect
            /\ tile_view = new.ib.tile_view
            /\ redraw_cutoff = new.ib.redraw_cutoff
            /\ zoom_buffer = new.ib.zoom_buffer
            /\ half_width = new.ib.half_width
            /\ half_height = new.ib.half_height
            /\ x_offset = new.ib.x_offset
            /\ y_offset = new.ib.y_offset
            /\ anchored_view = new.anchored_view
            /\ layer_quadtree = new.ib.layer_quadtree
            /\ buffer = new.ib.buffer
            /\ last_time = new.last_time
            /\ animation_queue = new.animation_queue
            /\ tokens = new.ib.tokens
            /\ animated_tile = new.animated_tile
            /\ clock = 0
            /\ last_op = Op("init", "full")
            /\ init_buffer = new.ib.buffer
            /\ pc = "idle"
            /\ pending = NoPending
            /\ surfaces = <<>>
            /\ blits = <<>>
            /\ time_source = 0
            /\ colorkey = new.colorkey
            /\ alpha = new.alpha
            /\ clear_color = new.clear_color
            /\ constructed = "yes"
            /\ fetch_rect = <<>>
            /\ fetch_tiles = <<>>
            /\ fetch_default = <<>>
            /\ NewAggregator
            /\ real_ratio_x = RatioOne
            /\ real_ratio_y = RatioOne
            /\ NoTranslation

\* construction with the default colorkey=None, alpha=False
Construct(m, cl, sz) == ConstructWith(m, cl, sz, None, FALSE)

\* no quadtree besides the renderer's: one of no items, never queried
NoQuadTree ==
    /\ qt_items = {}
    /\ qt_tree = FastQuadTree({}, QuadTreeDepth, <<>>)
    /\ qt_query = <<>>
    /\ qt_hits = {}

\* a static map, with and without camera clamping
Init == \E cl \in BOOLEAN, sz \in InitSizes : Construct(2, cl, sz) /\ NoQuadTree /\ NewThreaded

\* a map with an animated tile
InitAnimated == \E sz \in InitSizes : Construct(1, TRUE, sz) /\ NoQuadTree /\ NewThreaded

(***************************************************************************)
(* BufferedRenderer.center                                                 *)
(***************************************************************************)
\* a camera that takes the whole pixel distance as the offset into the buffer
TileOffsetWhole(p, t) == p

\* divmod(p, t)[1]: the pixel offset into the tile the view starts in
TileOffset(p, t) == p % t

\* one axis of the unclamped branch of center(): which case applies
AxisCase(msize, vsize, left) ==
    IF msize < vsize \/ left < 0 THEN "pin"
    ELSE IF left + vsize > msize THEN "edge"
    ELSE "free"

\* a camera that skips the clamp of the view rect
ClampViewSkipped(clamp, vr, bounds) == vr

\* center(): with clamp_camera the view rect is kept from exposing the map edges
ClampView(clamp, vr, bounds) == IF clamp THEN ClampIp(vr, bounds) ELSE vr

\* a center() that scrolls only below the cutoff
CachePathStrict(view_change, cutoff) ==
    IF view_change # 0 /\ view_change < cutoff THEN "incremental"
    ELSE IF view_change >= cutoff THEN "full"
    ELSE "none"

\* center(): what it does with the buffer for a tile view moved by view_change tiles
CachePath(view_change, cutoff) ==
    IF view_change # 0 /\ view_change <= cutoff THEN "incremental"
    ELSE IF view_change > cutoff THEN "full"
    ELSE "none"

\* BufferedRenderer.center for rounded coordinates: the fields it leaves
CenterCalc(x0, y0) ==
    LET vr1 == SetCenter(view_rect, x0, y0)
        vr == ClampView(clamp_camera, vr1, map_rect)
        x == IF clamp_camera THEN CenterX(vr) ELSE x0
        y == IF clamp_camera THEN CenterY(vr) ELSE y0
        mw == tmx.width
        mh == tmx.height
        vw == tile_view.w
        vh == tile_view.h
        left0 == (x - half_width) \div TileW
        xo0 == TileOffset(x - half_width, TileW)
        top0 == (y - half_height) \div TileH
        yo0 == TileOffset(y - half_height, TileH)
        xcase == IF clamp_camera THEN "free" ELSE AxisCase(mw, vw, left0)
        ycase == IF clamp_camera THEN "free" ELSE AxisCase(mh, vh, top0)
        left == CASE xcase = "pin" -> 0 [] xcase = "edge" -> mw - vw [] OTHER -> left0
        top == CASE ycase = "pin" -> 0 [] ycase = "edge" -> mh - vh [] OTHER -> top0
        xo == CASE xcase = "pin" -> x - half_width
                [] xcase = "edge" -> xo0 + (left0 - tile_view.x) * TileW
                [] OTHER -> xo0
        yo == CASE ycase = "pin" -> y - half_height
                [] ycase = "edge" -> yo0 + (top0 - tile_view.y) * TileH
                [] OTHER -> yo0
        dx == left - tile_view.x
        dy == top - tile_view.y
        view_change == Max(Abs(dx), Abs(dy))
        path == CachePath(view_change, redraw_cutoff)
        tv == MoveIp(tile_view, dx, dy)
        edges == EdgeRects(tv, dx, dy)
    IN  [view_rect |-> vr, x_offset |-> xo, y_offset |-> yo,
         anchored_view |-> (xcase = "free" /\ ycase = "free"),
         tile_view |-> IF path = "none" THEN tile_view ELSE tv,
         dx |-> dx, dy |-> dy, path |-> path,
         buffer |->
            CASE path = "incremental" ->
                    FlushTileQueue(ClearRects(ScrollSurface(buffer, dx, dy), tv, edges), tv,
                                   queue_edge_tiles(tmx, animated_tile, tv, dx, dy))
              [] path = "full" -> RedrawTiles(tmx, animated_tile, tv)
              [] OTHER -> buffer,
         tokens |->
            CASE path = "incremental" -> TrackRects(tmx, tokens, animation_queue, edges)
              [] path = "full" -> TrackByRect(tmx, tokens, animation_queue, tv)
              [] OTHER -> tokens]

CenterStep(opname, x0, y0) ==
    \E c \in {CenterCalc(x0, y0)} :
        /\ view_rect' = c.view_rect
        /\ x_offset' = c.x_offset
        /\ y_offset' = c.y_offset
        /\ anchored_view' = c.anchored_view
        /\ tile_view' = c.tile_view
        /\ buffer' = c.buffer
        /\ tokens' = c.tokens
        /\ last_op' = Op(opname, c.path)
        /\ UNCHANGED <<clamp_camera, size, zoom_level, map_rect, redraw_cutoff, zoom_buffer,
                       half_width, half_height, layer_quadtree>>
        /\ UNCHANGED <<map_id, last_time, animation_queue, animated_tile, clock, init_buffer>>
        /\ UNCHANGED <<avars, qvars, cvars>>

\* center(coords), the coordinates given in halves
Center(n2x, n2y) == CenterStep("center", Round(n2x), Round(n2y))

\* BufferedRenderer.scroll
Scroll(v) ==
    /\ v[1] + CenterX(view_rect) \in -2..(MaxCoord + 1)
    /\ v[2] + CenterY(view_rect) \in -2..(MaxCoord - 1)
    /\ CenterStep("scroll", v[1] + CenterX(view_rect), v[2] + CenterY(view_rect))


(***************************************************************************)
(* BufferedRenderer.set_size and the zoom setter                           *)
(***************************************************************************)
Reinitialize(view_size) ==
    \E ib \in {initialize_buffers(tmx, view_rect, view_size, tokens, animation_queue,
                                  animated_tile)} :
        /\ view_rect' = ib.view_rect
        /\ map_rect' = ib.map_rect
        /\ tile_view' = ib.tile_view
        /\ redraw_cutoff' = ib.redraw_cutoff
        /\ zoom_buffer' = ib.zoom_buffer
        /\ half_width' = ib.half_width
        /\ half_height' = ib.half_height
        /\ x_offset' = ib.x_offset
        /\ y_offset' = ib.y_offset
        /\ layer_quadtree' = ib.layer_quadtree
        /\ buffer' = ib.buffer
        /\ tokens' = ib.tokens
        /\ init_buffer' = ib.buffer
        /\ UNCHANGED <<clamp_camera, anchored_view>>
        /\ UNCHANGED <<map_id, last_time, animation_queue, animated_tile, clock>>
        /\ UNCHANGED <<avars, qvars, time_source, kvars, fvars, mvars, tvars, pvars>>

\* BufferedRenderer.set_size
set_size(sz) ==
    /\ ~ZoomRaises(zoom_level)
    /\ size' = sz
    /\ zoom_level' = zoom_level
    /\ last_op' = Op("set_size", "full")
    /\ Reinitialize(calculate_zoom_buffer_size(sz, zoom_level))
    /\ UNCHANGED zvars

\* a zoom setter that stores the value before it is validated
ZoomAfterRaiseStored(old, value) == value

\* the zoom level a call of the zoom setter that raised leaves behind
ZoomAfterRaise(old, value) == old

\* the zoom setter
SetZoom(value) ==
    IF ZoomRaises(value)
    THEN /\ zoom_level' = ZoomAfterRaise(zoom_level, value)
         /\ last_op' = Op("zoom", "raise")
         /\ UNCHANGED <<clamp_camera, size, view_rect, map_rect, tile_view, redraw_cutoff,
                        zoom_buffer, half_width, half_height, x_offset, y_offset,
                        anchored_view, layer_quadtree, buffer>>
         /\ UNCHANGED <<dvars, clock, init_buffer, avars, qvars, cvars>>
    ELSE /\ zoom_level' = value
         /\ size' = size
         /\ last_op' = Op("zoom", "full")
         /\ Reinitialize(calculate_zoom_buffer_size(size, value))
         /\ \E zb \in {calculate_zoom_buffer_size(size, value)} :
                /\ real_ratio_x' = Ratio(size[1], zb[1])
                /\ real_ratio_y' = Ratio(size[2], zb[2])

(***************************************************************************)
(* BufferedRenderer.draw: _render_map, with the target rect at the origin.  *)
(* The wall clock is read by _update_time only, so time passes (by dt)     *)
(* when a draw reads it.                                                   *)
(***************************************************************************)
Draw(dt, sprs) ==
    \E pr \in {process_animation_queue(tmx, tile_view, clock + dt, tokens, animation_queue,
                                       animated_tile)} :
        /\ clock + dt <= MaxTime
        /\ clock' = clock + dt
        /\ last_time' = clock + dt
        /\ tokens' = pr.tokens
        /\ animation_queue' = pr.queue
        /\ animated_tile' = pr.at
        /\ buffer' = IF pr.new_tiles # <<>> THEN FlushTileQueue(buffer, tile_view, pr.new_tiles)
                     ELSE buffer
        /\ last_op' = Op("draw", IF pr.advanced # <<>> THEN "advance" ELSE "none")
        /\ UNCHANGED <<clamp_camera, size, zoom_level, view_rect, map_rect, tile_view,
                       redraw_cutoff, zoom_buffer, half_width, half_height, x_offset,
                       y_offset, anchored_view, layer_quadtree>>
        /\ UNCHANGED <<map_id, init_buffer>>
        /\ pc = "idle"
        /\ surfaces' = sprs
        /\ blits' = IF sprs # <<>>
                    THEN DrawSurfaces(tmx, pr.at, tile_view, layer_quadtree, x_offset,
                                      y_offset, sprs)
                    ELSE <<>>
        /\ UNCHANGED <<pc, pending, qvars, cvars>>

Next ==
    \/ \E n2x \in CenterXs, n2y \in CenterYs : Center(n2x, n2y)
    \/ \E v \in ScrollVectors : Scroll(v)
    \/ \E sz \in Sizes : set_size(sz)
    \/ \E z \in Zooms : SetZoom(z)
    \/ \E dt \in 0..1 : Draw(dt, <<>>)

Spec == Init /\ [][Next]_vars

SpecAnimated == InitAnimated /\ [][Next]_vars

\* drawing sprites over a map as the camera moves
InitDraw == \E cl \in BOOLEAN, sz \in InitSizes : Construct(2, cl, sz) /\ NoQuadTree /\ NewThreaded

NextDraw ==
    \/ \E n2x \in CenterXs, n2y \in {2, 7} : Center(n2x, n2y)
    \/ \E dt \in 0..1, sprs \in SurfaceLists : Draw(dt, sprs)

SpecDraw == InitDraw /\ [][NextDraw]_vars

(***************************************************************************)
(* draw() on maps whose frame durations include zero, with the while loop  *)
(* of process_animation_queue taken one round at a time                    *)
(***************************************************************************)
\* the adapter's state as the loop of process_animation_queue sees it
LoopState ==
    [tokens |-> tokens, queue |-> animation_queue, at |-> animated_tile,
     new_tiles |-> pending.new_tiles, advanced |-> pending.advanced]

\* _render_map enters process_animation_queue: _update_time, and the test that
\* returns at once when nothing is due
DrawBegin(dt) ==
    /\ pc = "idle"
    /\ clock + dt <= MaxTime
    /\ clock' = clock + dt
    /\ last_time' = clock + dt
    /\ pending' = NoPending
    /\ surfaces' = <<>>
    /\ blits' = <<>>
    /\ IF animation_queue = <<>> \/ tokens[animation_queue[1]].next > clock + dt
       THEN pc' = "idle" /\ last_op' = Op("draw", "none")
       ELSE pc' = "loop" /\ last_op' = Op("draw", "loop")
    /\ UNCHANGED <<rvars, map_id, animation_queue, tokens, animated_tile, init_buffer, qvars, cvars>>

\* one round of the while loop
DrawLoop ==
    /\ pc = "loop"
    /\ AnimationDue(LoopState, last_time)
    /\ Len(pending.advanced) < MaxSteps
    /\ \E st \in {AnimationLoopBody(tmx, tile_view, last_time, LoopState)} :
        /\ tokens' = st.tokens
        /\ animation_queue' = st.queue
        /\ animated_tile' = st.at
        /\ pending' = [new_tiles |-> st.new_tiles, advanced |-> st.advanced]
    /\ UNCHANGED <<rvars, map_id, last_time, clock, last_op, init_buffer, pc, surfaces,
                   blits, qvars, cvars>>

\* the loop ends, process_animation_queue returns and _render_map flushes the tiles
DrawEnd ==
    /\ pc = "loop"
    /\ ~AnimationDue(LoopState, last_time)
    /\ pc' = "idle"
    /\ buffer' = IF pending.new_tiles # <<>>
                 THEN FlushTileQueue(buffer, tile_view, pending.new_tiles)
                 ELSE buffer
    /\ last_op' = Op("draw", "advance")
    /\ UNCHANGED <<clamp_camera, size, zoom_level, view_rect, map_rect, tile_view,
                   redraw_cutoff, zoom_buffer, half_width, half_height, x_offset,
                   y_offset, anchored_view, layer_quadtree>>
    /\ UNCHANGED <<dvars, clock, init_buffer, pending, surfaces, blits, qvars, cvars>>

InitQueue == \E m \in 3..Len(Maps), sz \in InitSizes : Construct(m, TRUE, sz) /\ NoQuadTree /\ NewThreaded

NextQueue ==
    \/ pc = "idle" /\ \E n2x \in CenterXs : Center(n2x, 2)
    \/ \E dt \in 0..1 : DrawBegin(dt)
    \/ DrawLoop
    \/ DrawEnd

SpecQueue == InitQueue /\ [][NextQueue]_vars

(***************************************************************************)
(* A FastQuadTree on its own: built from a set of rects, then queried      *)
(***************************************************************************)
\* the rects indexed: grids of tile cells, whole and with a cell missing
ItemSets ==
    {CellRects(w, h) : w \in 1..4, h \in 1..4}
    \cup {CellRects(4, 4) \ {c} : c \in CellRects(4, 4)}

QueryRects == {Rect(x, y, w, h) : x \in {-1, 1, 3, 4, 6}, y \in {-1, 1, 3, 4, 6},
                                  w \in {1, 3}, h \in {1, 3}}

InitQT ==
    /\ \E sz \in InitSizes : Construct(2, TRUE, sz)
    /\ \E items \in ItemSets, depth \in 1..MaxQDepth :
        /\ qt_items = items
        /\ qt_tree = FastQuadTree(items, depth, <<>>)
    /\ qt_query = <<>>
    /\ qt_hits = {}
    /\ NewThreaded

\* FastQuadTree.hit
HitQuery(rect) ==
    /\ qt_query' = <<rect>>
    /\ qt_hits' = hit(qt_tree, rect)
    /\ UNCHANGED <<rvars, dvars, clock, last_op, init_buffer, avars, qt_items, qt_tree, cvars>>

NextQT == \E rect \in QueryRects : HitQuery(rect)

SpecQT == InitQT /\ [][NextQT]_vars


(***************************************************************************)
(* Properties of the renderer                                              *)
(***************************************************************************)
\* what a full redraw of the current tile view would put on the buffer
FullRedraw == RedrawTiles(tmx, animated_tile, tile_view)

\* C1: after a center() that took the incremental path (a move of at most
\* redraw_cutoff tiles, diagonal moves included) the buffer is identical, cell
\* for cell and layer for layer, to what a full redraw of the same tile view
\* produces.
C1_CutoffCorrectness ==
    (last_op.op \in {"center", "scroll"} /\ last_op.path = "incremental") => buffer = FullRedraw

\* the column a cell of the map shows: per visible layer the tile of the data
\* source, an animated tile by the current frame of its token
CurrentImage(x, y, l) ==
    LET gid == GetTileImageRaw(tmx, x, y, l)
    IN  IF gid \in DOMAIN tokens THEN CurrentFrame(tokens[gid]).image ELSE gid

RECURSIVE BlitAll(_, _)
BlitAll(stack, images) ==
    IF images = <<>> THEN stack
    ELSE BlitAll(IF Head(images) # 0 THEN BlitImage(stack, Head(images)) ELSE stack, Tail(images))

CurrentColumn(x, y) ==
    BlitAll(<<>>, [k \in 1..Len(VisibleLayers) |-> CurrentImage(x, y, VisibleLayers[k])])

IsSuffix(a, b) == Len(a) <= Len(b) /\ SubSeq(b, Len(b) - Len(a) + 1, Len(b)) = a

\* C2: every cell inside the tile view shows, for each visible layer, the tile
\* of the data source at that cell, an animated tile by the current frame of
\* its token (the column is what was last drawn onto the cell).
C2_CacheShowsCurrentFrames ==
    \A c \in DOMAIN buffer :
        IsSuffix(CurrentColumn(c[1] + tile_view.x, c[2] + tile_view.y), buffer[c])

\* C3: with a static data source, center() calls whose net tile displacement
\* is zero leave the buffer as it was before them (here: as the last
\* allocation of the buffer filled it, at the tile view origin).
C3_RoundTrip ==
    (DOMAIN tokens = {} /\ tile_view.x = 0 /\ tile_view.y = 0) => buffer = init_buffer

\* C4: with clamp_camera set and a map at least as large as the view, after
\* center() or scroll() the view rect lies inside the map rect; a 800x600 view
\* of a 100x100 map of 16x16 tiles centred on (0, 0) has its centre at (400, 300).
C4_CameraClamped ==
    /\ (/\ clamp_camera
        /\ last_op.op \in {"center", "scroll"}
        /\ map_rect.w >= view_rect.w /\ map_rect.h >= view_rect.h)
       => Contains(map_rect, view_rect)
    /\ LET vr == ClampView(TRUE, SetCenter(Rect(0, 0, 800, 600), 0, 0), Rect(0, 0, 1600, 1600))
       IN  CenterX(vr) = 400 /\ CenterY(vr) = 300

\* C4 witness: a scroll past the right edge of the map was clamped to it
C4_Witness ==
    /\ clamp_camera
    /\ last_op.op = "scroll"
    /\ view_rect.w > 0
    /\ Right(view_rect) = Right(map_rect)
    /\ view_rect.y > 0

\* C9: after a token advanced, the buffer cell of each of its tracked positions
\* holds exactly the column a full redraw would produce: the new frame and the
\* tiles of the other layers in layer order, nothing of the previous frame.
C9_ColumnIntegrity ==
    last_op = Op("draw", "advance") =>
        \A g \in DOMAIN tokens : \A pos \in tokens[g].positions :
            LET c == <<pos[1] - tile_view.x, pos[2] - tile_view.y>>
            IN  c \in DOMAIN buffer => buffer[c] = FullRedraw[c]

PointsOf(r) == (r.x..(r.x + r.w - 1)) \X (r.y..(r.y + r.h - 1))

\* the target area draw() is clipped to
DrawArea == Rect(0, 0, zoom_buffer[1], zoom_buffer[2])

\* the tile the map has on layer l under a point of the target, 0 for none
TileUnder(p, l) ==
    LET cx == (p[1] + x_offset) \div TileW
        cy == (p[2] + y_offset) \div TileH
    IN  IF <<cx, cy>> \in DOMAIN buffer
        THEN get_tile_image(tmx, animated_tile, cx + tile_view.x, cy + tile_view.y, l)
        ELSE 0

\* whether a blit of the drawn list paints the point
BlitCovers(b, p) ==
    IF b.s.kind = "sprite"
    THEN CollidePoint(surfaces[b.s.id].rect, p[1], p[2])
    ELSE CollidePoint(Rect(b.x, b.y, TileW, TileH), p[1], p[2])

LayerSet == {VisibleLayers[k] : k \in 1..Len(VisibleLayers)}

\* C5: after draw() with sprites, at every point of a sprite on layer L inside
\* the drawn area, each non-empty tile of a layer above L is blitted after the
\* sprite, and no tile of a layer at or below L is blitted after it (so a sprite
\* on or above the top layer has no tile over it), for one or several sprites.
C5_SpriteOcclusion ==
    (last_op.op = "draw" /\ surfaces # <<>>) =>
        \A k \in 1..Len(blits) :
            blits[k].s.kind = "sprite" =>
                \A p \in PointsOf(surfaces[blits[k].s.id].rect) \cap PointsOf(DrawArea) :
                    /\ \A l \in LayerSet :
                        (l > blits[k].l /\ TileUnder(p, l) # 0) =>
                            \E j \in (k + 1)..Len(blits) :
                                /\ blits[j].s = [kind |-> "tile", id |-> TileUnder(p, l)]
                                /\ blits[j].l = l
                                /\ BlitCovers(blits[j], p)
                    /\ \A j \in (k + 1)..Len(blits) :
                        (blits[j].s.kind = "tile" /\ BlitCovers(blits[j], p)) =>
                            blits[j].l > blits[k].l

\* two sprites were drawn over one cell: a higher tile was drawn again over the
\* first, and the second lies over every tile
C5_Witness ==
    /\ last_op.op = "draw"
    /\ Len(surfaces) = 2
    /\ \E k \in 1..Len(blits), j \in 1..Len(blits), m \in 1..Len(blits) :
        /\ k < j /\ j < m
        /\ blits[k].s.kind = "sprite" /\ blits[j].s.kind = "tile" /\ blits[m].s.kind = "sprite"
        /\ blits[j].l > blits[k].l
        /\ \E p \in PointsOf(DrawArea) :
            BlitCovers(blits[k], p) /\ BlitCovers(blits[j], p) /\ BlitCovers(blits[m], p)

(***************************************************************************)
(* Properties of the quadtree and of the animation queue                   *)
(***************************************************************************)
\* C6: hit(rect) contains every indexed rect that overlaps the query rect, as a
\* scan of all the indexed rects finds them, for every item set and depth.
C6_QuadtreeComplete ==
    qt_query # <<>> =>
        \A i \in qt_items : CollideRect(qt_query[1], i) => i \in qt_hits

\* a query found rects that are filed below the root of a tree with sub-quadrants
C6_Witness ==
    /\ qt_query # <<>>
    /\ qt_tree.se # <<>>
    /\ \E i \in qt_hits : i \notin qt_tree.items /\ CollideRect(qt_query[1], i)
    /\ qt_hits # qt_items

\* C7: each advance of a token moves its frame index one step round the cycle
\* (so k advances of a k-frame token bring it back) and strictly increases the
\* time of its next change.
C7_AnimationCycling ==
    [][(pc = "loop" /\ Len(pending'.advanced) = Len(pending.advanced) + 1) =>
        LET g == pending'.advanced[Len(pending'.advanced)]
        IN  /\ tokens'[g].index = (tokens[g].index + 1) % Len(tokens[g].frames)
            /\ tokens'[g].next > tokens[g].next]_vars

\* C8: within one call of process_animation_queue no token is advanced more than
\* once, and every token advanced is rescheduled at now + the duration of its
\* new frame.
C8_AdvancedOnce ==
    /\ \A i, j \in 1..Len(pending.advanced) :
        i # j => pending.advanced[i] # pending.advanced[j]
    /\ pc = "loop" =>
        \A i \in 1..Len(pending.advanced) :
            LET t == tokens[pending.advanced[i]]
            IN  t.next = last_time + CurrentFrame(t).duration

(***************************************************************************)
(* A view wider than the map: the map is 8 pixels wide, the view 10        *)
(***************************************************************************)
WideSize == <<10, 2>>

InitSmall == \E cl \in BOOLEAN : Construct(2, cl, WideSize) /\ NoQuadTree /\ NewThreaded

NextSmall ==
    \/ \E n2x \in CenterXs, n2y \in CenterYs : Center(n2x, n2y)
    \/ \E v \in ScrollVectors : Scroll(v)
    \/ \E dt \in 0..1 : Draw(dt, <<>>)

SpecSmall == InitSmall /\ [][NextSmall]_vars

\* C11: when the map is narrower (lower) than the view, after every center()
\* or scroll(), clamped or not, the tile view stays at 0 on that axis, the
\* offset on it is the plain pixel offset of the view, and the view is not
\* anchored.
C11_SmallMapPinned ==
    last_op.op \in {"center", "scroll"} =>
        /\ map_rect.w < view_rect.w =>
            /\ tile_view.x = 0
            /\ x_offset = CenterX(view_rect) - half_width
            /\ ~anchored_view
        /\ map_rect.h < view_rect.h =>
            /\ tile_view.y = 0
            /\ y_offset = CenterY(view_rect) - half_height
            /\ ~anchored_view

(***************************************************************************)
(* Properties of the tile view and of the buffer                           *)
(***************************************************************************)
\* the number of tiles the buffer has for len pixels of view: the least number
\* of tiles that covers them, and one more
BufferTiles(n, len) == (n - 1) * TileW >= len /\ (n - 2) * TileW < len

\* C12: the tile view's size is determined by the viewport size and the zoom
\* level, and center(), scroll() and draw() (animation advances included)
\* leave it as it is.
C12_TileViewSize ==
    /\ [](/\ zoom_level.n * zoom_buffer[1] <= size[1] * zoom_level.d
          /\ size[1] * zoom_level.d < zoom_level.n * (zoom_buffer[1] + 1)
          /\ zoom_level.n * zoom_buffer[2] <= size[2] * zoom_level.d
          /\ size[2] * zoom_level.d < zoom_level.n * (zoom_buffer[2] + 1)
          /\ BufferTiles(tile_view.w, zoom_buffer[1])
          /\ BufferTiles(tile_view.h, zoom_buffer[2]))
    /\ [][last_op'.op \in {"center", "scroll", "draw"} =>
            (tile_view'.w = tile_view.w /\ tile_view'.h = tile_view.h)]_vars

\* the view was resized and zoomed, then scrolled to another tile
C12_Witness ==
    /\ last_op = Op("scroll", "incremental")
    /\ size = <<4, 2>>
    /\ ~ZoomIsOne(zoom_level)
    /\ tile_view.x > 0

\* C13: the buffer has ceil(view / tile) + 1 tiles on each axis, so it is at
\* least a tile larger than the view, and while the view is anchored, after
\* center() or scroll() the offset lies within one tile and the view drawn at
\* that offset lies within the buffer.
C13_BufferMargin ==
    /\ BufferTiles(tile_view.w, view_rect.w)
    /\ BufferTiles(tile_view.h, view_rect.h)
    /\ tile_view.w * TileW >= view_rect.w + TileW
    /\ tile_view.h * TileH >= view_rect.h + TileH
    /\ DOMAIN buffer = (0..(tile_view.w - 1)) \X (0..(tile_view.h - 1))
    /\ (anchored_view /\ last_op.op \in {"center", "scroll"}) =>
        /\ 0 <= x_offset /\ x_offset < TileW
        /\ 0 <= y_offset /\ y_offset < TileH
        /\ x_offset + view_rect.w <= tile_view.w * TileW
        /\ y_offset + view_rect.h <= tile_view.h * TileH

\* an unclamped camera scrolled to a place between two tile boundaries
C13_Witness ==
    /\ last_op.op = "scroll"
    /\ ~clamp_camera
    /\ anchored_view
    /\ x_offset = 1
    /\ y_offset = 1
    /\ tile_view.x > 0

(***************************************************************************)
(* A map whose tile 3 cycles two frames, one of them of no duration, so    *)
(* that it advances more than once as the camera moves                     *)
(***************************************************************************)
InitTrack == \E cl \in BOOLEAN, sz \in InitSizes : Construct(6, cl, sz) /\ NoQuadTree /\ NewThreaded

NextTrack ==
    \/ \E n2x \in CenterXs, n2y \in {2, 7} : Center(n2x, n2y)
    \/ \E dt \in 0..1 : Draw(dt, <<>>)

SpecTrack == InitTrack /\ [][NextTrack]_vars

\* the rects a step hands to get_tile_images_by_rect
FetchedRects ==
    CASE last_op'.path = "incremental" ->
            EdgeRects(tile_view', tile_view'.x - tile_view.x, tile_view'.y - tile_view.y)
      [] last_op'.path = "full" -> <<tile_view'>>
      [] OTHER -> <<>>

\* the positions of tile id g a step fetches
FetchedPositions(g) ==
    UNION {LET vis == VisitedByRect(tmx, FetchedRects[i])
           IN  {<<vis[j].x, vis[j].y, vis[j].l>> : j \in {k \in 1..Len(vis) : vis[k].gid = g}}
           : i \in 1..Len(FetchedRects)}

\* the step advanced token g
TokenAdvanced(g) ==
    /\ last_op'.op = "draw"
    /\ tokens'[g].next # tokens[g].next \/ tokens'[g].index # tokens[g].index

\* C14: a position is added to a token only by a fetch of its cell while the
\* animation queue is not empty, and every such fetch tracks it (again); a
\* position is removed only when its token advances; when a token advances
\* each tracked position inside the tile view gets the new frame as its
\* substitution and stays tracked, each one outside is removed and gets none,
\* and afterwards the token tracks positions inside the tile view only.
C14_LazyTracking ==
    [][\A g \in DOMAIN tokens :
        \A old \in {tokens[g].positions}, new \in {tokens'[g].positions},
           fetched \in {FetchedPositions(g)} :
            /\ new \ old # {} => (animation_queue # <<>> /\ (new \ old) \subseteq fetched)
            /\ animation_queue # <<>> => fetched \subseteq new
            /\ old \ new # {} => TokenAdvanced(g)
            /\ TokenAdvanced(g) =>
                /\ \A p \in old :
                    IF CollidePoint(tile_view, p[1], p[2])
                    THEN /\ p \in new
                         /\ p \in DOMAIN animated_tile'
                         /\ animated_tile'[p] = CurrentFrame(tokens'[g]).image
                    ELSE /\ p \notin new
                         /\ p \in DOMAIN animated_tile' =>
                                (p \in DOMAIN animated_tile /\ animated_tile'[p] = animated_tile[p])
                /\ \A p \in new : CollidePoint(tile_view', p[1], p[2])]_vars

\* an advance has removed a position that an earlier advance had substituted,
\* while another position is still tracked
C14_Witness ==
    /\ last_op = Op("draw", "advance")
    /\ tokens[3].positions # {}
    /\ \E p \in DOMAIN animated_tile : p[3] = 1 /\ p \notin tokens[3].positions

(***************************************************************************)
(* BufferedRenderer.reload: reload_data() reads the map file again (the    *)
(* same file), reload_animations() reads the clock and builds the tokens   *)
(* and the heap anew, redraw_tiles() draws the tile view                    *)
(***************************************************************************)
Reload(dt) ==
    \E tk \in {ReloadTokens(tmx.frames, clock + dt)},
       q \in {ReloadQueue(tmx.frames, clock + dt)} :
        /\ pc = "idle"
        /\ clock + dt <= MaxTime
        /\ clock' = clock + dt
        /\ last_time' = clock + dt
        /\ animation_queue' = q
        /\ tokens' = TrackByRect(tmx, tk, q, tile_view)
        /\ buffer' = RedrawTiles(tmx, animated_tile, tile_view)
        /\ last_op' = Op("reload", "full")
        /\ UNCHANGED <<clamp_camera, size, zoom_level, view_rect, map_rect, tile_view,
                       redraw_cutoff, zoom_buffer, half_width, half_height, x_offset,
                       y_offset, anchored_view, layer_quadtree>>
        /\ UNCHANGED <<map_id, animated_tile, init_buffer, avars, qvars, cvars>>

NextReload ==
    \/ \E n2x \in CenterXs, n2y \in {2, 7} : Center(n2x, n2y)
    \/ \E dt \in 0..1 : Draw(dt, <<>>)
    \/ \E dt \in 0..1 : Reload(dt)

SpecReload == InitAnimated /\ [][NextReload]_vars

\* C15: after reload() every cell of the buffer shows the column of tiles the
\* reloaded data defines, an animated tile by the first frame of its new
\* token, and get_tile_image returns that tile for every cell of the map: no
\* substitution recorded before the reload is shown or returned.
C15_ReloadResets ==
    last_op.op = "reload" =>
        /\ \A g \in DOMAIN tokens : tokens[g].index = 0
        /\ \A c \in DOMAIN buffer :
                buffer[c] = CurrentColumn(c[1] + tile_view.x, c[2] + tile_view.y)
        /\ \A x \in 0..(tmx.width - 1), y \in 0..(tmx.height - 1) :
                \A k \in 1..Len(VisibleLayers) :
                    get_tile_image(tmx, animated_tile, x, y, VisibleLayers[k])
                        = CurrentImage(x, y, VisibleLayers[k])

(***************************************************************************)
(* A renderer constructed with a time source of the caller's, whose value  *)
(* the caller changes as it likes while the wall clock runs on             *)
(***************************************************************************)
SourceTimes == 0..MaxTime

\* the caller's time source moves to another value
SourceTick(t) ==
    /\ pc = "idle"
    /\ t # time_source
    /\ time_source' = t
    /\ last_op' = Op("tick", "none")
    /\ UNCHANGED <<rvars, dvars, clock, init_buffer, avars, qvars, kvars, fvars, mvars,
                   tvars, zvars, pvars>>

NextTime ==
    \/ \E n2x \in CenterXs, n2y \in {2, 7} : Center(n2x, n2y)
    \/ \E dt \in 0..1 : Draw(dt, <<>>)
    \/ \E dt \in 0..1 : Reload(dt)
    \/ \E t \in SourceTimes : SourceTick(t)

SpecTime == InitAnimated /\ [][NextTime]_vars

\* C16: the time by which tokens are scheduled at reload and advanced at a
\* draw is the value of the time source given to the constructor: right after
\* a draw() or a reload() the adapter's time is what the time source returned,
\* whatever the wall clock shows.
C16_TimeSourceOnly ==
    last_op.op \in {"draw", "reload"} => last_time = time_source

(***************************************************************************)
(* draw() with two sprites in either order, on the same layer or not       *)
(***************************************************************************)
OrderLists == {<<a, b>> : a \in {c \in Sprites : c.layer \in {1, 3}},
                          b \in {c \in Sprites : c.layer \in {1, 3}}}

NextOrder ==
    \/ \E n2x \in CenterXs, n2y \in {2, 7} : Center(n2x, n2y)
    \/ \E dt \in 0..1, sprs \in OrderLists : Draw(dt, sprs)

SpecOrder == InitDraw /\ [][NextOrder]_vars

\* where sprite i of the surfaces passed to draw() stands in the list blitted
BlitIndex(i) == CHOOSE k \in 1..Len(blits) : blits[k].s = [kind |-> "sprite", id |-> i]

\* C17: of two sprites passed to draw() on the same layer, the one passed later
\* is blitted later, wherever the two are on the screen.
C17_SpriteOrder ==
    \A i \in 1..Len(surfaces), j \in 1..Len(surfaces) :
        (i < j /\ surfaces[i].layer = surfaces[j].layer) => BlitIndex(i) < BlitIndex(j)

\* C18: in every state the quadtree holds exactly the rects of the cells of the
\* buffer grid, (x * tw, y * th, tw, th) for each cell (x, y) of the tile view's
\* width and height, and a hit() over the whole buffer returns them all; the
\* steps of center(), scroll() and draw() leave the quadtree as it is.
C18_QuadtreeIsGrid ==
    /\ [](/\ TreeItems(layer_quadtree) =
                {Rect(x * TileW, y * TileH, TileW, TileH) :
                    x \in 0..(tile_view.w - 1), y \in 0..(tile_view.h - 1)}
          /\ hit(layer_quadtree, Rect(0, 0, tile_view.w * TileW, tile_view.h * TileH))
                = TreeItems(layer_quadtree))
    /\ [][last_op'.op \in {"center", "scroll", "draw"} =>
            layer_quadtree' = layer_quadtree]_vars

\* the camera has moved over a buffer that set_size() made three tiles wide
C18_Witness ==
    /\ last_op.op = "center"
    /\ ZoomIsOne(zoom_level)
    /\ tile_view.w = 3
    /\ tile_view.x > 0
    /\ Cardinality(TreeItems(layer_quadtree)) = 6

(***************************************************************************)
(* The constructor as a step: BufferedRenderer(data, size, clamp_camera,   *)
(* colorkey, alpha) called on a renderer that does not exist yet            *)
(***************************************************************************)
\* the colorkey arguments: none, or a colour
ColorKeys == {None, <<255, 0, 255>>}

\* nothing of the renderer has been assigned
InitNew ==
    /\ map_id = 1
    /\ clamp_camera = None /\ size = None /\ zoom_level = None /\ view_rect = None
    /\ map_rect = None /\ tile_view = None /\ redraw_cutoff = None /\ zoom_buffer = None
    /\ half_width = None /\ half_height = None /\ x_offset = None /\ y_offset = None
    /\ anchored_view = None /\ layer_quadtree = None /\ buffer = None
    /\ last_time = 0 /\ animation_queue = <<>> /\ tokens = None /\ animated_tile = NoSubstitutions
    /\ clock = 0
    /\ last_op = Op("none", "none")
    /\ init_buffer = None
    /\ pc = "idle" /\ pending = NoPending /\ surfaces = <<>> /\ blits = <<>>
    /\ NoQuadTree
    /\ time_source = 0
    /\ colorkey = None /\ alpha = FALSE /\ clear_color = None
    /\ constructed = "no"
    /\ fetch_rect = <<>> /\ fetch_tiles = <<>> /\ fetch_default = <<>>
    /\ NewAggregator
    /\ NewThreaded
    /\ real_ratio_x = None /\ real_ratio_y = None
    /\ NoTranslation

\* BufferedRenderer.__init__
New(cl, sz, ck, al) ==
    /\ constructed = "no"
    /\ IF CtorRaises(ck, al)
       THEN /\ constructed' = "raised"
            /\ colorkey' = ck
            /\ alpha' = al
            /\ last_op' = Op("init", "raise")
            /\ UNCHANGED <<rvars, dvars, clock, init_buffer, avars, qvars, time_source,
                           clear_color, fvars, mvars, tvars, zvars, pvars>>
       ELSE \E new \in {NewRenderer(map_id, cl, sz, ck, al)} :
            /\ clamp_camera' = new.clamp_camera
            /\ size' = new.size
            /\ zoom_level' = new.zoom_level
            /\ view_rect' = new.ib.view_rect
            /\ map_rect' = new.ib.map_rect
            /\ tile_view' = new.ib.tile_view
            /\ redraw_cutoff' = new.ib.redraw_cutoff
            /\ zoom_buffer' = new.ib.zoom_buffer
            /\ half_width' = new.ib.half_width
            /\ half_height' = new.ib.half_height
            /\ x_offset' = new.ib.x_offset
            /\ y_offset' = new.ib.y_offset
            /\ anchored_view' = new.anchored_view
            /\ layer_quadtree' = new.ib.layer_quadtree
            /\ buffer' = new.ib.buffer
            /\ last_time' = new.last_time
            /\ animation_queue' = new.animation_queue
            /\ tokens' = new.ib.tokens
            /\ animated_tile' = new.animated_tile
            /\ last_op' = Op("init", "full")
            /\ init_buffer' = new.ib.buffer
            /\ colorkey' = new.colorkey
            /\ alpha' = new.alpha
            /\ clear_color' = new.clear_color
            /\ constructed' = "yes"
            /\ real_ratio_x' = RatioOne
            /\ real_ratio_y' = RatioOne
            /\ UNCHANGED <<map_id, clock, avars, qvars, time_source, fvars, mvars, tvars,
                           pvars>>

NextNew ==
    \/ \E cl \in BOOLEAN, sz \in Sizes, ck \in ColorKeys, al \in BOOLEAN : New(cl, sz, ck, al)
    \/ /\ constructed = "yes"
       /\ \/ \E n2x \in CenterXs, n2y \in {2, 7} : Center(n2x, n2y)
          \/ \E dt \in 0..1 : Draw(dt, <<>>)

SpecNew == InitNew /\ [][NextNew]_vars

\* C19: a constructor called with both a colorkey and alpha raises and leaves
\* no buffer allocated; called with one of them or neither it constructs the
\* renderer, with its buffer, and the clear colour is the colorkey, the
\* transparent colour for alpha, or none.
C19_ColorkeyAlphaExclusive ==
    /\ constructed # "no" => (constructed = "raised" <=> (colorkey # None /\ alpha))
    /\ constructed = "raised" => (buffer = None /\ zoom_buffer = None /\ tile_view = None)
    /\ constructed = "yes" =>
        /\ DOMAIN buffer # {}
        /\ clear_color = IF colorkey # None THEN colorkey
                         ELSE IF alpha THEN <<0, 0, 0, 0>> ELSE None

\* the constructor was called with both and raised
C19_Witness ==
    /\ constructed = "raised"
    /\ colorkey = <<255, 0, 255>>
    /\ alpha
    /\ last_op = Op("init", "raise")

(***************************************************************************)
(* get_tile_images_by_rect called on the data source with rects of the     *)
(* caller's, on the map, across its edges and off it                       *)
(***************************************************************************)
FetchRects == {Rect(x, y, w, h) : x \in {-3, -1, 0, 3}, y \in {-3, 0, 2}, w \in 1..2, h \in 1..2}

\* list(data.get_tile_images_by_rect(rect)), next to what the default
\* implementation of the base class yields for the same rect
Fetch(rect) ==
    /\ pc = "idle"
    /\ fetch_rect' = <<rect>>
    /\ fetch_tiles' = get_tile_images_by_rect(tmx, animated_tile, rect)
    /\ fetch_default' = DefaultTileImagesByRect(tmx, animated_tile, rect)
    /\ tokens' = TrackByRect(tmx, tokens, animation_queue, rect)
    /\ last_op' = Op("fetch", "none")
    /\ UNCHANGED <<rvars, map_id, last_time, animation_queue, animated_tile, clock,
                   init_buffer, avars, qvars, time_source, kvars, mvars, tvars, zvars, pvars>>

NextFetch ==
    \/ \E dt \in 0..1 : Draw(dt, <<>>)
    \/ \E rect \in FetchRects : Fetch(rect)

SpecFetch == InitAnimated /\ [][NextFetch]_vars

\* C20: get_tile_images_by_rect(rect) of TiledMapData yields what the default
\* implementation yields: layer by layer, row by row, the non-empty tiles of
\* the cells from rect.x to rect.x + w - 1 and from rect.y to rect.y + h - 1,
\* and no tile of a cell outside them, for rects on, across and off the map.
C20_RectFetch ==
    fetch_rect # <<>> =>
        /\ fetch_tiles = fetch_default
        /\ \A k \in 1..Len(fetch_tiles) :
            /\ fetch_tiles[k].x \in fetch_rect[1].x..(fetch_rect[1].x + fetch_rect[1].w - 1)
            /\ fetch_tiles[k].y \in fetch_rect[1].y..(fetch_rect[1].y + fetch_rect[1].h - 1)

(***************************************************************************)
(* A MapAggregator given maps at offsets of the caller's, negative ones    *)
(* included, and asked to remove them                                      *)
(***************************************************************************)
MapOffsets == {<<x, y>> : x \in {-2, 0, 3}, y \in {-1, 0, 2}}

\* MapAggregator.add_map
AddMap(d, offset) ==
    /\ Len(agg_maps) < MaxMaps
    /\ agg_call' = [op |-> "add_map", data |-> d.id, offset |-> offset, before |-> <<AggState>>]
    /\ IF d.tile_size # AggTileSize
       THEN /\ last_op' = Op("add_map", "AssertionError")
            /\ UNCHANGED <<agg_maps, agg_min_x, agg_min_y, agg_map_size>>
       ELSE \E a \in {AddMapCalc(d, offset)} :
            /\ last_op' = Op("add_map", "ok")
            /\ agg_maps' = a.maps
            /\ agg_min_x' = a.min_x
            /\ agg_min_y' = a.min_y
            /\ agg_map_size' = a.map_size
    /\ UNCHANGED <<rvars, dvars, clock, init_buffer, avars, qvars, time_source, kvars, fvars,
                   tvars, zvars, pvars>>

\* MapAggregator.remove_map
RemoveMap(d) ==
    /\ agg_call' = [op |-> "remove_map", data |-> d.id, offset |-> <<0, 0>>,
                    before |-> <<AggState>>]
    /\ last_op' = Op("remove_map", "NotImplementedError")
    /\ UNCHANGED <<agg_maps, agg_min_x, agg_min_y, agg_map_size>>
    /\ UNCHANGED <<rvars, dvars, clock, init_buffer, avars, qvars, time_source, kvars, fvars,
                   tvars, zvars, pvars>>

NextAgg ==
    \/ \E d \in DataSources, offset \in MapOffsets : AddMap(d, offset)
    \/ \E d \in DataSources : RemoveMap(d)

SpecAgg == Init /\ [][NextAgg]_vars

\* the extent of the rects stored: (max right edge, max bottom edge)
Extent(maps) ==
    <<IF maps = <<>> THEN 0
      ELSE CHOOSE m \in {Right(maps[i].rect) : i \in 1..Len(maps)} :
                \A i \in 1..Len(maps) : Right(maps[i].rect) <= m,
      IF maps = <<>> THEN 0
      ELSE CHOOSE m \in {Bottom(maps[i].rect) : i \in 1..Len(maps)} :
                \A i \in 1..Len(maps) : Bottom(maps[i].rect) <= m>>

\* C21: after any sequence of add_map calls map_size is (max right edge, max
\* bottom edge) over the rects of all the maps added.
C21_MapSizeIsExtent == agg_map_size = Extent(agg_maps)

\* C22: after any sequence of add_map calls, with negative offsets too, every
\* stored map rect has left >= 0 and top >= 0.
C22_RectsNormalized ==
    \A i \in 1..Len(agg_maps) : agg_maps[i].rect.x >= 0 /\ agg_maps[i].rect.y >= 0

\* the data source of the given id
SourceOf(id) == CHOOSE d \in DataSources : d.id = id

\* C23: remove_map(data) of a map added before takes it off the list and makes
\* map_size the extent of the maps that remain, (0, 0) when none remains;
\* remove_map of a map never added raises ValueError and changes nothing.
C23_RemoveMap ==
    last_op.op = "remove_map" =>
        LET before == agg_call.before[1]
            present == {i \in 1..Len(before.maps) : before.maps[i].data = agg_call.data}
        IN  IF present # {}
            THEN /\ last_op.path = "ok"
                 /\ Len(agg_maps) = Len(before.maps) - 1
                 /\ \A i \in 1..Len(agg_maps) : agg_maps[i].data # agg_call.data
                        \/ Cardinality(present) > 1
                 /\ agg_map_size = Extent(agg_maps)
            ELSE /\ last_op.path = "ValueError"
                 /\ AggState = before

\* C24: add_map of a data source whose tile_size is not the aggregator's raises
\* ValueError and leaves the maps, the minimum offsets and map_size as they were.
C24_TileSizeMismatch ==
    (last_op.op = "add_map" /\ SourceOf(agg_call.data).tile_size # AggTileSize) =>
        /\ last_op.path = "ValueError"
        /\ AggState = agg_call.before[1]

(***************************************************************************)
(* FastQuadTree(items) as a step, the empty sequence among the items       *)
(***************************************************************************)
BuildItemSets == {CellRects(w, h) : w \in 0..2, h \in 1..2}

\* FastQuadTree.__init__: it has no raise statement, "not items" makes a leaf
BuildQuadTree(items, depth) ==
    /\ qt_items' = items
    /\ qt_tree' = FastQuadTree(items, depth, <<>>)
    /\ qt_query' = <<>>
    /\ qt_hits' = {}
    /\ last_op' = Op("quadtree", "ok")
    /\ UNCHANGED <<rvars, dvars, clock, init_buffer, avars, cvars>>

NextQTNew ==
    \/ \E items \in BuildItemSets, depth \in 1..MaxQDepth : BuildQuadTree(items, depth)
    \/ \E rect \in QueryRects : HitQuery(rect)

SpecQTNew == Init /\ [][NextQTNew]_vars

\* C25: constructing a FastQuadTree from an empty sequence of rects raises
\* ValueError.
C25_EmptyTreeRaises ==
    (last_op.op = "quadtree" /\ qt_items = {}) => last_op.path = "ValueError"

(***************************************************************************)
(* The threaded variant: the render thread calls the renderer, TileThread  *)
(* takes coordinates from the queue and blits them into the shared buffer  *)
(***************************************************************************)
\* how far from the origin the camera is scrolled
MaxScroll == 6

\* BufferedRenderer.half_width, half_height
ThreadHalf == <<ThreadSize[1] \div 2, ThreadSize[2] \div 2>>

\* the clamp of BufferedRenderer.center on one axis
ThreadClamp(cc, p, half, len) ==
    IF ~cc THEN p
    ELSE IF p < half THEN half
    ELSE IF p + half > len THEN len - half
    ELSE p

\* BufferedRenderer.center up to its flush(): the clamped point, the offsets
\* and the displacement of the view in tiles
ThreadCenterCalc(r, x0, y0) ==
    LET hpad == ThreadPadding \div 2
        x == ThreadClamp(r.clamp_camera, x0, ThreadHalf[1], ThreadMapRect.w)
        y == ThreadClamp(r.clamp_camera, y0, ThreadHalf[2], ThreadMapRect.h)
        left == (x - ThreadHalf[1]) \div TileW
        top == (y - ThreadHalf[2]) \div TileH
    IN  [x |-> x, y |-> y,
         same |-> r.old_x = x /\ r.old_y = y,
         xoffset |-> ((x - ThreadHalf[1]) % TileW) + hpad * TileW,
         yoffset |-> ((y - ThreadHalf[2]) % TileH) + hpad * TileH,
         dx |-> left - hpad - r.view.x,
         dy |-> top - hpad - r.view.y]

\* Queue.put of every coordinate of a sequence; each is noted with the origin
\* of the view it is put under
QueuePut(coords, view) ==
    /\ th_queue' = th_queue \o [i \in 1..Len(coords) |->
                                    [c |-> coords[i], origin |-> <<view.x, view.y>>]]
    /\ th_unfinished' = th_unfinished + Len(coords)

\* Queue.task_done without the decrement
TaskDoneMissing(n) == n

\* Queue.task_done
TaskDone(n) == n - 1

\* the render thread enters ThreadedRenderer.flush: Queue.join blocks while
\* tasks are unfinished
EnterJoin(call, c, unfinished) ==
    /\ th_render' = [pc |-> "join", call |-> call, dx |-> c.dx, dy |-> c.dy, x |-> c.x, y |-> c.y]
    /\ th_waited' = (unfinished > 0)

\* the render thread returns from a call that did not enter flush
ReturnFrom(call) ==
    /\ th_render' = [RenderIdle EXCEPT !.call = call]
    /\ th_waited' = FALSE

\* BufferedRenderer.center(coords), called as call, up to the flush() it may enter
CenterBody(call, x0, y0) ==
    /\ th_render.pc = "idle"
    /\ \E c \in {ThreadCenterCalc(th_r, x0, y0)} :
        IF c.same
        THEN /\ th_r' = [th_r EXCEPT !.idle = TRUE]
             /\ ReturnFrom(call)
        ELSE IF Abs(c.dx) >= 1 \/ Abs(c.dy) >= 1
        THEN /\ th_r' = [th_r EXCEPT !.idle = FALSE, !.xoffset = c.xoffset,
                                     !.yoffset = c.yoffset]
             /\ EnterJoin(call, c, th_unfinished)
        ELSE /\ th_r' = [th_r EXCEPT !.idle = FALSE, !.xoffset = c.xoffset,
                                     !.yoffset = c.yoffset, !.old_x = c.x, !.old_y = c.y]
             /\ ReturnFrom(call)
    /\ UNCHANGED <<th_queue, th_unfinished, th_lock, th_worker, th_write>>
    /\ UNCHANGED <<rvars, dvars, clock, last_op, init_buffer, avars, qvars, time_source, kvars,
                   fvars, mvars, zvars, pvars>>

\* BufferedRenderer.center(coords)
CenterT(x0, y0) == CenterBody("center", x0, y0)

\* BufferedRenderer.scroll(vector)
ScrollT(vx, vy) ==
    /\ Abs(th_r.old_x + vx) <= MaxScroll
    /\ Abs(th_r.old_y + vy) <= MaxScroll
    /\ CenterBody("scroll", th_r.old_x + vx, th_r.old_y + vy)

\* BufferedRenderer.draw(surface, rect) of a ThreadedRenderer: flush_on_draw is False
DrawT ==
    /\ th_render.pc = "idle"
    /\ IF th_r.blank
       THEN /\ th_r' = [th_r EXCEPT !.blank = FALSE]
            /\ QueuePut(RedrawQueue(th_r.view), th_r.view)
            /\ EnterJoin("draw_blank", [dx |-> 0, dy |-> 0, x |-> 0, y |-> 0],
                         th_unfinished + Len(RedrawQueue(th_r.view)))
       ELSE /\ ReturnFrom("draw")
            /\ UNCHANGED <<th_r, th_queue, th_unfinished>>
    /\ UNCHANGED <<th_lock, th_worker, th_write>>
    /\ UNCHANGED <<rvars, dvars, clock, last_op, init_buffer, avars, qvars, time_source, kvars,
                   fvars, mvars, zvars, pvars>>

\* ThreadedRenderer.flush()
FlushT ==
    /\ th_render.pc = "idle"
    /\ EnterJoin("flush", [dx |-> 0, dy |-> 0, x |-> 0, y |-> 0], th_unfinished)
    /\ UNCHANGED <<th_r, th_queue, th_unfinished, th_lock, th_worker, th_write>>
    /\ UNCHANGED <<rvars, dvars, clock, last_op, init_buffer, avars, qvars, time_source, kvars,
                   fvars, mvars, zvars, pvars>>

\* BufferedRenderer.redraw()
RedrawT ==
    /\ th_render.pc = "idle"
    /\ QueuePut(RedrawQueue(th_r.view), th_r.view)
    /\ EnterJoin("redraw", [dx |-> 0, dy |-> 0, x |-> 0, y |-> 0],
                 th_unfinished + Len(RedrawQueue(th_r.view)))
    /\ UNCHANGED <<th_r, th_lock, th_worker, th_write>>
    /\ UNCHANGED <<rvars, dvars, clock, last_op, init_buffer, avars, qvars, time_source, kvars,
                   fvars, mvars, zvars, pvars>>

\* BufferedRenderer.set_size(size): a new buffer, filled with the colorkey if there is one
SetSizeT ==
    /\ th_render.pc = "idle"
    /\ th_r' = [th_r EXCEPT !.view = ThreadView(ThreadSize, ThreadPadding),
                            !.idle = FALSE, !.blank = TRUE, !.xoffset = 0, !.yoffset = 0,
                            !.old_x = 0, !.old_y = 0]
    /\ th_write' = IF th_r.colorkey
                   THEN [by |-> "render", op |-> "fill", locked |-> th_lock = "render"]
                   ELSE th_write
    /\ ReturnFrom("set_size")
    /\ UNCHANGED <<th_queue, th_unfinished, th_lock, th_worker>>
    /\ UNCHANGED <<rvars, dvars, clock, last_op, init_buffer, avars, qvars, time_source, kvars,
                   fvars, mvars, zvars, pvars>>

\* Queue.join returns: no task is unfinished. center goes on from its flush():
\* the view moves, the buffer is scrolled and the edge tiles are put
JoinReturn ==
    /\ th_render.pc = "join"
    /\ th_unfinished = 0
    /\ IF th_render.call \in {"center", "scroll"}
       THEN \E view \in {Rect(th_r.view.x + th_render.dx, th_r.view.y + th_render.dy,
                              th_r.view.w, th_r.view.h)} :
            /\ th_r' = [th_r EXCEPT !.view = view, !.old_x = th_render.x,
                                    !.old_y = th_render.y]
            /\ th_write' = [by |-> "render", op |-> "scroll", locked |-> th_lock = "render"]
            /\ QueuePut(get_edge_tiles(view, th_render.dx, th_render.dy), view)
       ELSE UNCHANGED <<th_r, th_write, th_queue, th_unfinished>>
    /\ th_render' = [RenderIdle EXCEPT !.call = th_render.call]
    /\ UNCHANGED <<th_lock, th_worker, th_waited>>
    /\ UNCHANGED <<rvars, dvars, clock, last_op, init_buffer, avars, qvars, time_source, kvars,
                   fvars, mvars, zvars, pvars>>

\* TileThread.run: tile_queue.get(), the references renewed, the tile fetched
WorkerTake ==
    /\ th_worker.pc = "get"
    /\ th_queue # <<>>
    /\ th_queue' = Tail(th_queue)
    /\ \E c \in {Head(th_queue).c} : \E tile \in {ThreadTile(c)} :
        th_worker' = [pc |-> IF tile # 0 \/ (th_r.colorkey /\ <<c[1], c[2], c[3] - 1>> \notin {})
                             THEN "acquire" ELSE "task_done",
                      item |-> c, tile |-> tile, old_tiles |-> {}, wrote |-> "none",
                      ltw |-> th_r.view.x * TileW, tth |-> th_r.view.y * TileH,
                      put_at |-> Head(th_queue).origin]
    /\ UNCHANGED <<th_r, th_unfinished, th_lock, th_render, th_write, th_waited>>
    /\ UNCHANGED <<rvars, dvars, clock, last_op, init_buffer, avars, qvars, time_source, kvars,
                   fvars, mvars, zvars, pvars>>

\* TileThread.run: with lock, entered
WorkerAcquire ==
    /\ th_worker.pc = "acquire"
    /\ th_lock = "free"
    /\ th_lock' = "worker"
    /\ th_worker' = [th_worker EXCEPT !.pc = "write"]
    /\ UNCHANGED <<th_r, th_queue, th_unfinished, th_render, th_write, th_waited>>
    /\ UNCHANGED <<rvars, dvars, clock, last_op, init_buffer, avars, qvars, time_source, kvars,
                   fvars, mvars, zvars, pvars>>

\* TileThread.run: fill and blit into the buffer
WorkerWrite ==
    /\ th_worker.pc = "write"
    /\ th_write' = [by |-> "worker", op |-> IF th_worker.tile # 0 THEN "blit" ELSE "fill",
                    locked |-> th_lock = "worker"]
    /\ th_worker' = [th_worker EXCEPT !.pc = "release",
                        !.wrote = IF th_worker.tile # 0 THEN "blit" ELSE "fill",
                        !.old_tiles = IF th_r.colorkey /\ th_worker.tile # 0
                                      THEN @ \cup {th_worker.item} ELSE @]
    /\ UNCHANGED <<th_r, th_queue, th_unfinished, th_lock, th_render, th_waited>>
    /\ UNCHANGED <<rvars, dvars, clock, last_op, init_buffer, avars, qvars, time_source, kvars,
                   fvars, mvars, zvars, pvars>>

\* TileThread.run: with lock, left
WorkerRelease ==
    /\ th_worker.pc = "release"
    /\ th_lock' = "free"
    /\ th_worker' = [th_worker EXCEPT !.pc = "task_done"]
    /\ UNCHANGED <<th_r, th_queue, th_unfinished, th_render, th_write, th_waited>>
    /\ UNCHANGED <<rvars, dvars, clock, last_op, init_buffer, avars, qvars, time_source, kvars,
                   fvars, mvars, zvars, pvars>>

\* TileThread.run: tile_queue.task_done()
WorkerTaskDone ==
    /\ th_worker.pc = "task_done"
    /\ th_unfinished' = TaskDone(th_unfinished)
    /\ th_worker' = WorkerGet
    /\ UNCHANGED <<th_r, th_queue, th_lock, th_render, th_write, th_waited>>
    /\ UNCHANGED <<rvars, dvars, clock, last_op, init_buffer, avars, qvars, time_source, kvars,
                   fvars, mvars, zvars, pvars>>

\* the points the camera is centered on and the vectors it is scrolled by
ThreadCenters == {<<1, 1>>, <<5, 4>>}

ThreadVectors == {<<4, 0>>}

\* ThreadedRenderer(data, size, colorkey=ck): without and with a colorkey
InitThread ==
    \E ck \in BOOLEAN, sz \in InitSizes :
        Construct(2, FALSE, sz) /\ NoQuadTree /\ NewThreadedWith(ck, FALSE)

Worker == WorkerTake \/ WorkerAcquire \/ WorkerWrite \/ WorkerRelease \/ WorkerTaskDone

NextThread ==
    \/ \E c \in ThreadCenters : CenterT(c[1], c[2])
    \/ \E v \in ThreadVectors : ScrollT(v[1], v[2])
    \/ DrawT
    \/ FlushT
    \/ RedrawT
    \/ SetSizeT
    \/ JoinReturn
    \/ WorkerTake
    \/ WorkerAcquire
    \/ WorkerWrite
    \/ WorkerRelease
    \/ WorkerTaskDone

SpecThread == InitThread /\ [][NextThread]_vars

\* C26: in the threaded variant every write to the pixels of the shared buffer,
\* by the worker (fill, blit) and by the render thread (scroll in center(), fill
\* in set_size()), is made while the writer holds the lock
C26_WritesHoldLock == th_write.by # "none" => th_write.locked

\* C27: in the threaded variant the render thread waits for the tile queue to
\* be drained only inside an explicitly requested flush() or redraw (the redraw
\* of a blank buffer by draw() included): center(), scroll() and draw() on a
\* filled buffer return without waiting for the worker
C27_WaitsOnlyInFlush == th_waited => th_render.call \in {"flush", "redraw", "draw_blank"}

\* the threaded variant under a fair scheduler: the worker thread is not
\* starved, and a join() that may return does
SpecThreadFair == InitThread /\ [][NextThread]_vars /\ WF_vars(Worker) /\ WF_vars(JoinReturn)

\* the coordinates put and not yet marked done: those still queued and the one
\* the worker is at
Unprocessed == Len(th_queue) + (IF th_worker.pc = "get" THEN 0 ELSE 1)

\* C28: in the threaded variant, under a fair scheduler, every coordinate put
\* on the tile queue is eventually fetched and blitted by the worker (it is
\* counted unfinished until the worker has fetched it and blitted its tile, and
\* the count always comes back to zero), and every flush() the render thread
\* enters eventually returns, after which no queued tile is left unprocessed
C28_NoDeadlock ==
    /\ [](th_unfinished = Unprocessed)
    /\ []((th_worker.pc = "task_done" /\ th_worker.tile # 0) => th_worker.wrote = "blit")
    /\ (th_unfinished > 0) ~> (th_unfinished = 0 /\ th_queue = <<>>)
    /\ (th_render.pc = "join") ~> (th_render.pc = "idle")
    /\ []((th_render.pc = "idle" /\ th_render.call \in {"flush", "redraw", "draw_blank"})
            => (th_queue = <<>> /\ th_unfinished = 0 /\ th_worker.pc = "get"))

\* a flush() that had to wait for the worker has returned, the last tile blitted
C28_Witness ==
    /\ th_render.pc = "idle"
    /\ th_render.call = "flush"
    /\ th_waited
    /\ th_write = [by |-> "worker", op |-> "blit", locked |-> TRUE]
    /\ th_unfinished = 0

(***************************************************************************)
(* center() and scroll() alone, from both settings of clamp_camera         *)
(***************************************************************************)
NextCenter ==
    \/ \E n2x \in CenterXs, n2y \in CenterYs : Center(n2x, n2y)
    \/ \E v \in ScrollVectors : Scroll(v)

SpecCenter == Init /\ [][NextCenter]_vars

\* the images of a stack of blits
ImagesOf(stack) == {stack[i] : i \in 1..Len(stack)}

\* what one fetch of every layer of a cell of the static map leaves on a cleared cell
FetchedColumn(x, y) ==
    BlitAll(<<>>, [k \in 1..Len(VisibleLayers) |-> GetTileImageRaw(tmx, x, y, VisibleLayers[k])])

\* the cells of the moved buffer that the move exposed
Exposed(tv, dx, dy) ==
    {c \in (0..(tv.w - 1)) \X (0..(tv.h - 1)) :
        \/ dx > 0 /\ c[1] >= tv.w - dx
        \/ dx < 0 /\ c[1] < -dx
        \/ dy > 0 /\ c[2] >= tv.h - dy
        \/ dy < 0 /\ c[2] < -dy}

\* what a center() on (x, y) leaves, by the displacement of the tile view
CacheAction(x, y) ==
    \E c \in {CenterCalc(x, y)} : \E m \in {Max(Abs(c.dx), Abs(c.dy))} :
        /\ last_op'.path \in {"none", "incremental", "full"}
        /\ m = 0 =>
            /\ last_op'.path = "none"
            /\ buffer' = buffer
            /\ tile_view' = tile_view
        /\ (0 < m /\ m <= redraw_cutoff) =>
            /\ last_op'.path = "incremental"
            /\ tile_view' = MoveIp(tile_view, c.dx, c.dy)
            /\ \A b \in DOMAIN buffer' :
                IF b \in Exposed(tile_view, c.dx, c.dy)
                THEN ImagesOf(buffer'[b])
                        = ImagesOf(FetchedColumn(tile_view'.x + b[1], tile_view'.y + b[2]))
                ELSE buffer'[b] = buffer[<<b[1] + c.dx, b[2] + c.dy>>]
        /\ m > redraw_cutoff =>
            /\ last_op'.path = "full"
            /\ tile_view' = MoveIp(tile_view, c.dx, c.dy)
            /\ \A b \in DOMAIN buffer' :
                buffer'[b] = FetchedColumn(tile_view'.x + b[1], tile_view'.y + b[2])

\* C29: center() chooses the cache action from the tile displacement alone:
\* with no displacement the buffer and the tile view are unchanged; with a
\* displacement up to redraw_cutoff only the exposed edge strips are cleared
\* and refetched, the rest of the buffer is the scrolled old content; with a
\* larger one the tile view is moved directly and every cell is refetched;
\* never an error
C29_CacheAction ==
    [][/\ \A n2x \in CenterXs, n2y \in CenterYs :
            Center(n2x, n2y) => CacheAction(Round(n2x), Round(n2y))
       /\ \A v \in ScrollVectors :
            Scroll(v) => CacheAction(v[1] + CenterX(view_rect), v[2] + CenterY(view_rect))]_vars

\* a teleport of several tiles redrew the buffer away from the origin
C29_Witness ==
    /\ last_op.op = "center"
    /\ last_op.path = "full"
    /\ tile_view.x >= 2

\* C30: after every center(), for both settings of clamp_camera and jumps of
\* several tiles past the right or bottom edge of the map included, the tile
\* view and the offsets place the buffer so that the top left of the view rect
\* is the top left of the screen:
\* tile_view.left * tile_w + x_offset = view_rect.left, and the same for top
C30_CameraAligned ==
    last_op.op \in {"center", "scroll"} =>
        /\ tile_view.x * TileW + x_offset = view_rect.x
        /\ tile_view.y * TileH + y_offset = view_rect.y

\* the points a center() or scroll() of the model may have centered on
CenterPoints == (-2..(MaxCoord + 1)) \X (-2..(MaxCoord + 1))

\* the state is the one a center() on p leaves: the view rect is centered on p,
\* clamped to the map with clamp_camera
CenteredOn(p) ==
    /\ last_op.op \in {"center", "scroll"}
    /\ view_rect = ClampView(clamp_camera, SetCenter(view_rect, p[1], p[2]), map_rect)

\* C31: center() is idempotent: after center(p), a second center(p) leaves
\* view_rect, the tile view, the offsets, the anchored flag and the buffer as
\* they are
C31_CenterIdempotent ==
    \A p \in CenterPoints :
        CenteredOn(p) =>
            \E c \in {CenterCalc(p[1], p[2])} :
                /\ c.view_rect = view_rect
                /\ c.tile_view = tile_view
                /\ c.x_offset = x_offset
                /\ c.y_offset = y_offset
                /\ c.anchored_view = anchored_view
                /\ c.buffer = buffer

\* the tile view and the offsets place the buffer at the view rect
Aligned(tv, xo, yo, vr) == tv.x * TileW + xo = vr.x /\ tv.y * TileH + yo = vr.y

\* C32: after set_size() or a zoom change made while the camera is away from
\* the map origin, the camera stays centered on the same world point and the
\* cache matches it without a further center(): view_rect.center is unchanged
\* and the tile view and the offsets are aligned to view_rect
C32_ResizeKeepsCamera ==
    [][((view_rect.x # 0 \/ view_rect.y # 0)
            /\ ((\E sz \in Sizes : set_size(sz))
                \/ (\E z \in Zooms : ~ZoomRaises(z) /\ SetZoom(z))))
        => (/\ CenterX(view_rect') = CenterX(view_rect)
            /\ CenterY(view_rect') = CenterY(view_rect)
            /\ Aligned(tile_view', x_offset', y_offset', view_rect'))]_vars

\* the animation queue is a min-heap on the next-change time of its tokens
IsMinHeap(toks, heap) ==
    \A i \in 2..Len(heap) : toks[heap[i \div 2]].next <= toks[heap[i]].next

\* C33: in every reachable state the animation queue satisfies the min-heap
\* property on the next-change time, and when process_animation_queue has
\* returned every token's next-change time is greater than the time of that call
C33_HeapInvariant ==
    /\ IsMinHeap(tokens, animation_queue)
    /\ (pc = "idle" /\ last_op.op = "draw") =>
        \A i \in 1..Len(animation_queue) : tokens[animation_queue[i]].next > last_time

\* process_animation_queue advanced tokens of a queue of two and returned
C33_Witness ==
    /\ pc = "idle"
    /\ last_op = Op("draw", "advance")
    /\ Len(animation_queue) = 2
    /\ tokens[animation_queue[1]].next < tokens[animation_queue[2]].next

(***************************************************************************)
(* draw() on a map without animations and on a map with one               *)
(***************************************************************************)
InitIdle ==
    \E m \in 1..2, sz \in InitSizes : Construct(m, TRUE, sz) /\ NoQuadTree /\ NewThreaded

NextIdle ==
    \/ \E n2x \in CenterXs, n2y \in CenterYs : Center(n2x, n2y)
    \/ \E dt \in 0..1 : Draw(dt, <<>>)

SpecIdle == InitIdle /\ [][NextIdle]_vars

\* no token is due at time t, or there is no token at all
NothingDue(t) == animation_queue = <<>> \/ tokens[animation_queue[1]].next > t

\* C34: when no token is due, or there are no tokens at all,
\* process_animation_queue returns an empty list (nothing is blitted into the
\* buffer) and changes no token's index or next-change time, no tracked position
\* set and no entry of the substitution map
C34_NothingDueNoChange ==
    [][\A dt \in 0..1 :
        (NothingDue(clock + dt) /\ Draw(dt, <<>>)) =>
            /\ tokens' = tokens
            /\ animation_queue' = animation_queue
            /\ animated_tile' = animated_tile
            /\ buffer' = buffer
            /\ last_op' = Op("draw", "none")]_vars

\* a draw() found the token of a tracked tile not yet due
C34_Witness ==
    /\ last_op = Op("draw", "none")
    /\ animation_queue # <<>>
    /\ \E g \in DOMAIN tokens : tokens[g].positions # {}

\* two rects share a pixel
Overlaps(a, b) == PointsOf(a) \cap PointsOf(b) # {}

\* C35: hit(rect) returns no false positives: every returned item is an indexed
\* rectangle that overlaps rect, so with completeness the result is exactly the
\* set of the overlapping indexed rectangles, each once even when it was
\* stored under several quadrants
C35_HitExact ==
    qt_query # <<>> => qt_hits = {i \in qt_items : Overlaps(qt_query[1], i)}

\* a query returned an item stored under two quadrants, and not every item
C35_Witness ==
    /\ qt_query # <<>>
    /\ qt_tree.nw # <<>>
    /\ qt_tree.ne # <<>>
    /\ \E i \in qt_hits : i \in TreeItems(qt_tree.nw[1]) \cap TreeItems(qt_tree.ne[1])
    /\ \E i \in qt_items : i \notin qt_hits

\* C36: in the threaded variant the view does not change while the worker
\* holds a tile it has taken from the queue and not yet marked done, and so
\* every tile is blitted at the buffer position given by the view origin that
\* was current when it was put on the queue
C36_BlitAtEnqueueOrigin ==
    th_worker.pc # "get" =>
        /\ th_worker.ltw = th_r.view.x * TileW
        /\ th_worker.tth = th_r.view.y * TileH
        /\ th_worker.ltw = th_worker.put_at[1] * TileW
        /\ th_worker.tth = th_worker.put_at[2] * TileH

(***************************************************************************)
(* translate_point and translate_points under a zoom                       *)
(***************************************************************************)
\* int(a / b) for positive b: the fraction is cut off towards zero
IntOf(a, b) == IF a >= 0 THEN a \div b ELSE -((-a) \div b)

\* round(a / b) for positive b: to the nearest integer, a half to the even one
RoundOf(a, b) ==
    LET q == a \div b
        r == a % b
    IN  IF 2 * r < b THEN q
        ELSE IF 2 * r > b THEN q + 1
        ELSE IF q % 2 = 0 THEN q ELSE q + 1

\* BufferedRenderer.get_center_offset
get_center_offset == <<half_width - CenterX(view_rect), half_height - CenterY(view_rect)>>

\* BufferedRenderer.translate_point for a point of integers
translate_point(point) ==
    LET mx == get_center_offset[1]
        my == get_center_offset[2]
    IN  IF ZoomIsOne(zoom_level)
        THEN <<point[1] + mx, point[2] + my>>
        ELSE <<IntOf((point[1] + mx) * real_ratio_x.n, real_ratio_x.d),
               RoundOf((point[2] + my) * real_ratio_y.n, real_ratio_y.d)>>

\* BufferedRenderer.translate_points for points of integers
translate_points(points) ==
    LET sx == get_center_offset[1]
        sy == get_center_offset[2]
    IN  [i \in 1..Len(points) |->
            IF ZoomIsOne(zoom_level)
            THEN <<points[i][1] + sx, points[i][2] + sy>>
            ELSE <<RoundOf((points[i][1] + sx) * real_ratio_x.n, real_ratio_x.d),
                   RoundOf((points[i][2] + sy) * real_ratio_y.n, real_ratio_y.d)>>]

\* translate_point(point) and translate_points([point]) in the same state
Translate(point) ==
    /\ tr_point' = <<[point |-> point, offset |-> get_center_offset,
                     ratio |-> <<real_ratio_x, real_ratio_y>>]>>
    /\ tr_one' = translate_point(point)
    /\ tr_many' = translate_points(<<point>>)
    /\ UNCHANGED <<rvars, dvars, clock, last_op, init_buffer, avars, qvars, time_source, kvars,
                   fvars, mvars, tvars, zvars>>

\* the zooms set and the points translated
TranslateZooms == {ZoomOne, [n |-> 2, d |-> 1], [n |-> 1, d |-> 2], [n |-> 0, d |-> 1]}

TranslatePoints == {<<0, 0>>, <<1, 1>>, <<4, 1>>}

NextTranslate ==
    \/ \E n2x \in {2, 8}, n2y \in {2} : Center(n2x, n2y)
    \/ \E z \in TranslateZooms : SetZoom(z)
    \/ \E p \in TranslatePoints : Translate(p)

SpecTranslate == Init /\ [][NextTranslate]_vars

\* C37: translate_point(p) and translate_points([p]) return the same screen
\* coordinate for every integer world point p and every zoom level, and
\* translate_point treats the two axes alike: equal inputs and equal ratios
\* give equal outputs
C37_TranslateAgree ==
    tr_point # <<>> =>
        /\ tr_one = tr_many[1]
        /\ \E t \in {tr_point[1]} :
            (t.point[1] + t.offset[1] = t.point[2] + t.offset[2] /\ t.ratio[1] = t.ratio[2])
                => tr_one[1] = tr_one[2]

(***************************************************************************)
(* _queue_edge_tiles on the tile views center() and scroll() reach         *)
(***************************************************************************)
\* the map cells under the strips of tile view v exposed by a move of (dx, dy)
EdgeCells(v, dx, dy) == {<<v.x + c[1], v.y + c[2]>> : c \in Exposed(v, dx, dy)}

\* the tiles of the static map in a set of cells, layer by layer
TilesIn(cellset) ==
    {<<c[1], c[2], l>> : c \in cellset, l \in {VisibleLayers[k] : k \in 1..Len(VisibleLayers)}}
        \cap {t \in (-4..(MaxCoord + 4)) \X (-4..(MaxCoord + 4)) \X (0..2) :
                get_tile_image(tmx, animated_tile, t[1], t[2], t[3]) # 0}

\* _queue_edge_tiles(dx, dy) on the current tile view: the queue is the tiles
\* of the exposed strips, each strip once, and the cleared area is those strips
EdgeQueued(dx, dy) ==
    \E q \in {queue_edge_tiles(tmx, animated_tile, tile_view, dx, dy)} :
        /\ {<<q[i].x, q[i].y, q[i].l>> : i \in 1..Len(q)} = TilesIn(EdgeCells(tile_view, dx, dy))
        /\ (dx = 0 \/ dy = 0) =>
                \A i, j \in 1..Len(q) :
                    (q[i].x = q[j].x /\ q[i].y = q[j].y /\ q[i].l = q[j].l) => i = j
        /\ ClearRects(buffer, tile_view, EdgeRects(tile_view, dx, dy))
                = [c \in DOMAIN buffer |->
                        IF c \in Exposed(tile_view, dx, dy) THEN <<>> ELSE buffer[c]]

\* C38: _queue_edge_tiles(dx, dy), called on the moved tile view, queues
\* exactly the tiles of the newly exposed edge (the rightmost column for
\* dx = 1, the leftmost for dx = -1, the bottom row for dy = 1, the top row for
\* dy = -1, each over the full height or width of the tile view) and clears
\* exactly those buffer areas
C38_EdgeTilesQueued ==
    constructed = "yes" =>
        \A dx \in {-1, 0, 1}, dy \in {-1, 0, 1} : (dx # 0 \/ dy # 0) => EdgeQueued(dx, dy)

\* an incremental move has brought the tile view to a place where its right
\* column holds tiles and the buffer is drawn there
C38_Witness ==
    /\ last_op.path = "incremental"
    /\ tile_view.x >= 1
    /\ tile_view.y >= 1
    /\ queue_edge_tiles(tmx, animated_tile, tile_view, 1, 0) # <<>>
    /\ buffer[<<tile_view.w - 1, 0>>] # <<>>

(***************************************************************************)
(* The redraw cutoff and the path center() takes                           *)
(***************************************************************************)
\* how many tiles a step moves the tile view, on the axis it moves most
TileViewMoved == Max(Abs(tile_view'.x - tile_view.x), Abs(tile_view'.y - tile_view.y))

\* C39: redraw_cutoff is 1 in every reachable state, so only center() (scroll()
\* calls it) takes the incremental path that calls _queue_edge_tiles, and only
\* for a tile view moved by dx and dy in {-1, 0, 1}, not both zero; a center()
\* that moves the tile view two or more tiles on an axis takes the full redraw
C39_CutoffIsOne ==
    /\ [](redraw_cutoff = 1)
    /\ [][/\ last_op'.path = "incremental" =>
                /\ last_op'.op \in {"center", "scroll"}
                /\ TileViewMoved = 1
          /\ (last_op'.op \in {"center", "scroll"} /\ TileViewMoved >= 2) =>
                last_op'.path = "full"]_vars

\* after a resize has initialized the buffers again, a center() two or more
\* tiles away took the full redraw
C39_Witness ==
    /\ redraw_cutoff = 1
    /\ size = <<4, 2>>
    /\ last_op = Op("center", "full")
    /\ tile_view.y >= 2

=============================================================================
